---- MODULE Spec2Model ----
(***************************************************************************)
(* Extraction and reconciliation engine of the invoice processor:          *)
(*   - the Reference Extractor (find_references_dba / _totalnot /          *)
(*     _contpaq of Moldularversion/logic.py),                              *)
(*   - the Folio Resolver (find_folio of Moldularversion/logic.py and of   *)
(*     FunctionalityStable.py, the Folio step of analyze_pdfs),            *)
(*   - the per-document pipelines (process_single_pdf under the loop of    *)
(*     run_processing, and the loop of analyze_pdfs in pdf_processor.py),  *)
(*   - the desktop application (InvoiceProcessorApp of                     *)
(*     Moldularversion/gui.py with the thread of run_processing).          *)
(*                                                                         *)
(* Eight specifications:                                                   *)
(*   SpecRef      a reference finder applied to a text,                    *)
(*   SpecFolio    a Folio Resolver applied to a document,                  *)
(*   SpecLlm      query_llm_for_details applied to an oracle answer,       *)
(*   Spec         a batch of documents through a per-document pipeline,    *)
(*   SpecLive     Spec with the scheduling of its loops,                   *)
(*   SpecGui      the application from select_folder to enable_buttons:    *)
(*                the GUI thread, the batch threads and the timers of Tk,  *)
(*   SpecGuiLive  SpecGui with the scheduling of the threads and timers,   *)
(*   SpecTable    the handlers of the result table on a delivered frame.   *)
(*                                                                         *)
(* A number captured by a regular expression is a sequence of decimal      *)
(* digits (a "numeral"): "007" is <<0,0,7>>.  int() and str() are the      *)
(* operators ToInt and ToStr, so that "007" and "7" are different strings  *)
(* of equal numeric value.                                                 *)
(*                                                                         *)
(* A document text, as far as the reference rules are concerned, is a      *)
(* sequence of constructs separated by filler that no rule matches:        *)
(*   range      "<label> Numero x A y"    ("AL" for kind rangeAL)          *)
(*   list       "<label> Numero a Y b"                                     *)
(*   special    "Acta Fuera de Protocolo Numero s1/s2"                     *)
(*   single     "<label> n"                                                *)
(*   instr      "Instrumentos - Esc n" / "Instrumentos - Act n"            *)
(*   instrBoth  "Instrumentos - Esc a, Act b"                              *)
(* with <label> "Escritura" or "Acta Fuera de Protocolo".                  *)
(***************************************************************************)
EXTENDS Integers, Sequences, FiniteSets, TLC

\* ------------------------------------------------------------------------
\* Bounds of the model
\* ------------------------------------------------------------------------
MaxConstructs == 2

ESC == "Escritura"
ACTA == "Acta Fuera de Protocolo"
Categories == {ESC, ACTA}

\* a capture group that did not take part in the match (None); like the empty
\* string it is falsy in "if match.group(i)"
None == <<>>

\* the numerals of the texts: "8", "10" and, with a leading zero, "08"
Canon == { <<8>>, <<1, 0>> }
Numerals == Canon \cup { <<0, 8>> }

\* ------------------------------------------------------------------------
\* int() and str() on numerals
\* ------------------------------------------------------------------------
RECURSIVE ToInt(_)
ToInt(ds) == IF ds = <<>> THEN 0
             ELSE 10 * ToInt(SubSeq(ds, 1, Len(ds) - 1)) + ds[Len(ds)]

RECURSIVE ToStr(_)
ToStr(n) == IF n < 10 THEN <<n>> ELSE Append(ToStr(n \div 10), n % 10)

isdigit(s) == s # <<>> /\ \A i \in 1..Len(s) : s[i] \in 0..9

\* string comparison s < t (lexicographic on characters)
RECURSIVE StrLess(_, _)
StrLess(s, t) ==
    IF t = <<>> THEN FALSE
    ELSE IF s = <<>> THEN TRUE
    ELSE IF s[1] # t[1] THEN s[1] < t[1]
    ELSE StrLess(Tail(s), Tail(t))

\* ------------------------------------------------------------------------
\* Texts: sequences of constructs
\* ------------------------------------------------------------------------
Constructs ==
         { [kind |-> "range", cat |-> c, nums |-> <<x, y>>] :
               c \in Categories, x \in Canon, y \in Canon }
    \cup { [kind |-> "rangeAL", cat |-> ACTA, nums |-> <<x, y>>] :
               x \in Canon, y \in Canon }
    \cup { [kind |-> "list", cat |-> c, nums |-> <<a, b>>] :
               c \in Categories, a \in Numerals, b \in Canon }
    \cup { [kind |-> "special", cat |-> ACTA, nums |-> <<a, b>>] :
               a \in Numerals, b \in Canon }
    \cup { [kind |-> "single", cat |-> c, nums |-> <<n>>] :
               c \in Categories, n \in Numerals }
    \cup { [kind |-> "instr", cat |-> c, nums |-> <<n>>] :
               c \in Categories, n \in Canon }
    \cup { [kind |-> "instrBoth", cat |-> ESC, nums |-> <<a, b>>] :
               a \in Canon, b \in Canon }

\* constructs by kind
Range(cat, x, y) == [kind |-> "range", cat |-> cat, nums |-> <<x, y>>]
RangeAL(cat, x, y) == [kind |-> "rangeAL", cat |-> cat, nums |-> <<x, y>>]
List(cat, a, b) == [kind |-> "list", cat |-> cat, nums |-> <<a, b>>]
Single(cat, n) == [kind |-> "single", cat |-> cat, nums |-> <<n>>]

ConstructSeqs == UNION { [1..n -> Constructs] : n \in 0..MaxConstructs }

\* The text handed to the rules, as extract_text_from_pdf returns it: None
\* (st "none": the document could not be read), the empty string (st
\* "empty") or a text (st "text") with its constructs (refs) and the Folio
\* labels it carries (fol).
NoFolioText == <<>>
TextNone == [st |-> "none", refs |-> <<>>, fol |-> NoFolioText]
TextEmpty == [st |-> "empty", refs |-> <<>>, fol |-> NoFolioText]
TextOf(constructs, fol) == [st |-> "text", refs |-> constructs, fol |-> fol]

\* "if text:" / "if not text:"
Truthy(text) == text.st = "text"

Pad(groups, n) == groups \o [i \in 1..(n - Len(groups)) |-> None]

\* ------------------------------------------------------------------------
\* The Pattern Library: the matches of a rule on one construct, as a sequence
\* of zero or one tuple of capture groups.  Each rule is named after its
\* regular expression.
\* ------------------------------------------------------------------------
NoMatch == <<>>

REGEX_ESCRITURA_RANGE(c) ==
    IF c.kind = "range" /\ c.cat = ESC THEN <<c.nums>> ELSE NoMatch

REGEX_ACTA_RANGE(c) ==
    IF c.kind = "range" /\ c.cat = ACTA THEN <<c.nums>> ELSE NoMatch

REGEX_ACTA_RANGE_AL(c) ==
    IF c.kind = "rangeAL" /\ c.cat = ACTA THEN <<c.nums>> ELSE NoMatch

REGEX_ESCRITURA_LIST_Y(c) ==
    IF c.kind = "list" /\ c.cat = ESC THEN <<c.nums>> ELSE NoMatch

REGEX_ACTA_LIST_Y(c) ==
    IF c.kind = "list" /\ c.cat = ACTA THEN <<c.nums>> ELSE NoMatch

\* "Acta Fuera de Protocolo Numero (\d+)(?:/(\d+))? ... \b": ten groups; it has
\* no lookahead, so it also matches the first number of a range or a list
REGEX_ACTA_SPECIAL(c) ==
    IF c.cat = ACTA /\ c.kind = "special" THEN <<Pad(c.nums, 10)>>
    ELSE IF c.cat = ACTA /\ c.kind \in {"range", "rangeAL", "list"}
         THEN <<Pad(<<c.nums[1]>>, 10)>>
    ELSE NoMatch

\* "(?:Escritura|Esc) ... (\d+)\b(?!\s+A\s+\d+)(?!/)": not the start of a range
REGEX_ESCRITURA_SINGLE(c) ==
    IF c.cat = ESC /\ c.kind \in {"single", "list", "instr", "instrBoth"}
    THEN << <<c.nums[1]>> >> ELSE NoMatch

\* "Acta Fuera de Protocolo ... (\d+)\b(?!\s+(?:A|AL)\s+\d+)"
REGEX_ACTA_SINGLE(c) ==
    IF c.cat = ACTA /\ c.kind \in {"single", "list", "special"}
    THEN << <<c.nums[1]>> >> ELSE NoMatch

\* "Instrumentos - Esc (\d+)\b(?!\s*,)"
REGEX_INSTRUMENTOS_ESC_SINGLE(c) ==
    IF c.kind = "instr" /\ c.cat = ESC THEN <<c.nums>> ELSE NoMatch

REGEX_INSTRUMENTOS_ESC_COMMA(c) ==
    IF c.cat = ESC /\ c.kind \in {"instr", "instrBoth"}
    THEN <<Pad(<<c.nums[1]>>, 5)>> ELSE NoMatch

REGEX_INSTRUMENTOS_ACT_SINGLE(c) ==
    IF c.kind = "instr" /\ c.cat = ACTA THEN <<c.nums>> ELSE NoMatch

REGEX_INSTRUMENTOS_ACT_COMMA(c) ==
    IF c.kind = "instr" /\ c.cat = ACTA THEN <<Pad(c.nums, 5)>> ELSE NoMatch

\* groups 1-3 Escritura numbers, groups 4-6 Acta numbers; both halves optional
REGEX_INSTRUMENTOS_COMBINED(c) ==
    IF c.kind = "instr" /\ c.cat = ESC THEN <<Pad(c.nums, 6)>>
    ELSE IF c.kind = "instr" /\ c.cat = ACTA THEN <<Pad(<<>>, 6)>>
    ELSE IF c.kind = "instrBoth"
         THEN << <<c.nums[1], None, None, c.nums[2], None, None>> >>
    ELSE NoMatch

Match(pattern, c) ==
    CASE pattern = "REGEX_ESCRITURA_RANGE" -> REGEX_ESCRITURA_RANGE(c)
      [] pattern = "REGEX_ACTA_RANGE" -> REGEX_ACTA_RANGE(c)
      [] pattern = "REGEX_ACTA_RANGE_AL" -> REGEX_ACTA_RANGE_AL(c)
      [] pattern = "REGEX_ESCRITURA_LIST_Y" -> REGEX_ESCRITURA_LIST_Y(c)
      [] pattern = "REGEX_ACTA_LIST_Y" -> REGEX_ACTA_LIST_Y(c)
      [] pattern = "REGEX_ACTA_SPECIAL" -> REGEX_ACTA_SPECIAL(c)
      [] pattern = "REGEX_ESCRITURA_SINGLE" -> REGEX_ESCRITURA_SINGLE(c)
      [] pattern = "REGEX_ACTA_SINGLE" -> REGEX_ACTA_SINGLE(c)
      [] pattern = "REGEX_INSTRUMENTOS_ESC_SINGLE" -> REGEX_INSTRUMENTOS_ESC_SINGLE(c)
      [] pattern = "REGEX_INSTRUMENTOS_ESC_COMMA" -> REGEX_INSTRUMENTOS_ESC_COMMA(c)
      [] pattern = "REGEX_INSTRUMENTOS_ACT_SINGLE" -> REGEX_INSTRUMENTOS_ACT_SINGLE(c)
      [] pattern = "REGEX_INSTRUMENTOS_ACT_COMMA" -> REGEX_INSTRUMENTOS_ACT_COMMA(c)
      [] pattern = "REGEX_INSTRUMENTOS_COMBINED" -> REGEX_INSTRUMENTOS_COMBINED(c)

\* re.finditer(pattern, text): the matches in text order
RECURSIVE finditer(_, _)
finditer(pattern, text) ==
    IF text = <<>> THEN <<>>
    ELSE Match(pattern, Head(text)) \o finditer(pattern, Tail(text))

\* ------------------------------------------------------------------------
\* The Reference Extractor
\* ------------------------------------------------------------------------
\* the state of one run: the output list and the two "claimed numbers" sets
EmptyRun == [references |-> <<>>, found |-> [c \in Categories |-> {}]]

\* "if num_str not in found_set: references.append(...); found_set.add(num_str)"
\* (membership in found_set is string equality)
AddIfNewNoCheck(st, type_name, num_str) ==
    [references |-> Append(st.references, [Type |-> type_name, Number |-> num_str]),
     found |-> [st.found EXCEPT ![type_name] = @ \cup {num_str}]]

AddIfNew(st, type_name, num_str) ==
    IF num_str \notin st.found[type_name]
    THEN [references |-> Append(st.references,
                                [Type |-> type_name, Number |-> num_str]),
          found |-> [st.found EXCEPT ![type_name] = @ \cup {num_str}]]
    ELSE st

\* AddGroup with the claimed-numbers check left out
AddGroupNoClaim(st, type_name, g) ==
    IF g # None /\ isdigit(g) THEN AddIfNewNoCheck(st, type_name, g) ELSE st

\* "if match.group(i): num_str = ...; if num_str and num_str.isdigit() and ..."
AddGroup(st, type_name, g) ==
    IF g # None /\ isdigit(g) THEN AddIfNew(st, type_name, g) ELSE st

\* "for i in range(lo, hi + 1): <AddGroup of match.group(i)>"; groups that did
\* not take part in the match add nothing
RECURSIVE AddGroups(_, _, _, _, _)
AddGroups(st, type_name, groups, lo, hi) ==
    IF lo > hi \/ \A i \in lo..hi : groups[i] = None THEN st
    ELSE AddGroups(AddGroup(st, type_name, groups[lo]), type_name, groups, lo + 1, hi)

\* "for num in range(start, end + 1): num_str = str(num); ..."
RECURSIVE AddRange(_, _, _, _)
AddRange(st, type_name, num, end) ==
    IF num > end THEN st
    ELSE AddRange(AddIfNew(st, type_name, ToStr(num)), type_name, num + 1, end)

\* the body of "if is_range:" for one match
ExpandRange(st, type_name, groups) ==
    LET start == ToInt(groups[1])
        end == ToInt(groups[2])
    IN  IF start <= end THEN AddRange(st, type_name, start, end) ELSE st

\* one match of a pattern of patterns_and_types; mode is "range" (is_range),
\* "special" (use_special_grouping, every group), "special1" (group 1 only, as
\* in find_references_totalnot and find_references_contpaq) or "list"
ProcessMatch(st, type_name, groups, mode) ==
    CASE mode = "range" -> ExpandRange(st, type_name, groups)
      [] mode = "special" -> AddGroups(st, type_name, groups, 1, Len(groups))
      [] mode = "special1" -> AddGroup(st, type_name, groups[1])
      [] mode = "list" -> AddGroup(AddGroup(st, type_name, groups[1]),
                                   type_name, groups[2])
      [] mode = "single" -> AddGroup(st, type_name, groups[1])

\* "for match in re.finditer(pattern, text, flags): ..."
RECURSIVE ForMatches(_, _, _, _)
ForMatches(st, type_name, matches, mode) ==
    IF matches = <<>> THEN st
    ELSE ForMatches(ProcessMatch(st, type_name, Head(matches), mode),
                    type_name, Tail(matches), mode)

\* "for pattern, type_name, found_set, ... in <table>: for match in ..."
RECURSIVE ForPatterns(_, _, _)
ForPatterns(st, table, text) ==
    IF table = <<>> THEN st
    ELSE LET row == Head(table)
         IN  ForPatterns(ForMatches(st, row[2], finditer(row[1], text), row[3]),
                         Tail(table), text)

instrumentos_patterns ==
    << <<"REGEX_INSTRUMENTOS_ESC_SINGLE", ESC, "special">>,
       <<"REGEX_INSTRUMENTOS_ESC_COMMA", ESC, "special">>,
       <<"REGEX_INSTRUMENTOS_ACT_SINGLE", ACTA, "special">>,
       <<"REGEX_INSTRUMENTOS_ACT_COMMA", ACTA, "special">> >>

\* the loop over REGEX_INSTRUMENTOS_COMBINED: groups 1-3 Escritura, 4-6 Acta
RECURSIVE ForCombined(_, _)
ForCombined(st, matches) ==
    IF matches = <<>> THEN st
    ELSE ForCombined(AddGroups(AddGroups(st, ESC, Head(matches), 1, 3),
                               ACTA, Head(matches), 4, 6),
                     Tail(matches))

\* patterns_and_types of find_references_dba (special: every group)
patterns_and_types_dba ==
    << <<"REGEX_ESCRITURA_RANGE", ESC, "range">>,
       <<"REGEX_ACTA_RANGE", ACTA, "range">>,
       <<"REGEX_ACTA_RANGE_AL", ACTA, "range">>,
       <<"REGEX_ESCRITURA_LIST_Y", ESC, "list">>,
       <<"REGEX_ACTA_LIST_Y", ACTA, "list">>,
       <<"REGEX_ACTA_SPECIAL", ACTA, "special">> >>

\* patterns_and_types of find_references_totalnot and find_references_contpaq
\* (special: group 1 only)
patterns_and_types ==
    << <<"REGEX_ESCRITURA_RANGE", ESC, "range">>,
       <<"REGEX_ACTA_RANGE", ACTA, "range">>,
       <<"REGEX_ACTA_RANGE_AL", ACTA, "range">>,
       <<"REGEX_ESCRITURA_LIST_Y", ESC, "list">>,
       <<"REGEX_ACTA_LIST_Y", ACTA, "list">>,
       <<"REGEX_ACTA_SPECIAL", ACTA, "special1">> >>

single_patterns ==
    << <<"REGEX_ESCRITURA_SINGLE", ESC, "single">>,
       <<"REGEX_ACTA_SINGLE", ACTA, "single">> >>

\* ------------------------------------------------------------------------
\* references.sort(key=sort_key): a stable sort on the key
\* ------------------------------------------------------------------------
\* "Acta Fuera de Protocolo" < "Escritura" as strings
TypeRank(t) == IF t = ACTA THEN 0 ELSE 1

\* Moldularversion/logic.py: (item["Type"], num_val)
sort_key(item) == <<TypeRank(item.Type), ToInt(item.Number)>>

\* tuple comparison k1 < k2; a third component, if any, is a string
KeyLess(k1, k2) ==
    \/ k1[1] < k2[1]
    \/ k1[1] = k2[1] /\ k1[2] < k2[2]
    \/ k1[1] = k2[1] /\ k1[2] = k2[2] /\ Len(k1) = 3 /\ StrLess(k1[3], k2[3])

\* insert x after every element whose key is not greater (stability)
RECURSIVE InsertStable(_, _)
InsertStable(sorted, x) ==
    IF sorted = <<>> THEN <<x>>
    ELSE IF KeyLess(sort_key(x), sort_key(Head(sorted))) THEN <<x>> \o sorted
    ELSE <<Head(sorted)>> \o InsertStable(Tail(sorted), x)

RECURSIVE SortFrom(_, _)
SortFrom(sorted, rest) ==
    IF rest = <<>> THEN sorted
    ELSE SortFrom(InsertStable(sorted, Head(rest)), Tail(rest))

sort(references) == SortFrom(<<>>, references)

\* ------------------------------------------------------------------------
\* The three reference finders of Moldularversion/logic.py
\* ------------------------------------------------------------------------
find_references_dba(text) ==
    IF ~Truthy(text) THEN <<>>
    ELSE LET s1 == ForPatterns(EmptyRun, instrumentos_patterns, text.refs)
             s2 == ForCombined(s1, finditer("REGEX_INSTRUMENTOS_COMBINED", text.refs))
             s3 == ForPatterns(s2, patterns_and_types_dba, text.refs)
             s4 == ForPatterns(s3, single_patterns, text.refs)
         IN  sort(s4.references)

find_references_totalnot(text) ==
    IF ~Truthy(text) THEN <<>>
    ELSE LET s3 == ForPatterns(EmptyRun, patterns_and_types, text.refs)
             s4 == ForPatterns(s3, single_patterns, text.refs)
         IN  sort(s4.references)

find_references_contpaq(text) ==
    IF ~Truthy(text) THEN <<>>
    ELSE LET s3 == ForPatterns(EmptyRun, patterns_and_types, text.refs)
             s4 == ForPatterns(s3, single_patterns, text.refs)
         IN  sort(s4.references)

\* ------------------------------------------------------------------------
\* The Folio labels of a text.  The text is the labels joined by single
\* spaces; a character is a digit 0..9 or a code: 10 a letter, 11 the hyphen.
\*   folio    "FOLIO: <val>"            fiscal  "Folio fiscal"
\*   gap      <len> characters of filler that no rule matches
\*   serie    "Serie RP Folio <val>"    datos   "DATOS CFDI Folio: <val>"
\*   interno  "Folio interno: <val>"
\* ------------------------------------------------------------------------
MaxFolioSegs == 3

Rep(ch, n) == [i \in 1..n |-> ch]

\* Folio values of 1, 2, 20 and 21 characters
FolioVals == { <<7>>, <<4, 2>>, Rep(1, 20), Rep(3, 21) }
SomeVals == { <<4, 2>>, Rep(3, 21) }

\* a value of the shape 8-4-4-4-12, "11111111-1111-1111-1111-111111111111"
UUID == Rep(1, 8) \o <<11>> \o Rep(1, 4) \o <<11>> \o Rep(1, 4) \o <<11>>
            \o Rep(1, 4) \o <<11>> \o Rep(1, 12)

ContpaqSegs ==
         { [lab |-> "folio", val |-> v, len |-> 0] : v \in FolioVals }
    \cup { [lab |-> "fiscal", val |-> <<>>, len |-> 0] }
    \cup { [lab |-> "gap", val |-> <<>>, len |-> n] : n \in {16, 17} }

OtherSegs ==
         { [lab |-> l, val |-> v, len |-> 0] :
               l \in {"serie", "datos", "interno"}, v \in SomeVals }
    \cup { [lab |-> "interno", val |-> UUID, len |-> 0] }

FolioTexts ==
         UNION { [1..n -> ContpaqSegs] : n \in 0..MaxFolioSegs }
    \cup UNION { [1..n -> OtherSegs] : n \in 1..2 }

\* number of characters of a label as written in the text
SegLen(seg) ==
    CASE seg.lab = "folio" -> 7 + Len(seg.val)
      [] seg.lab = "fiscal" -> 12
      [] seg.lab = "gap" -> seg.len
      [] seg.lab = "serie" -> 15 + Len(seg.val)
      [] seg.lab = "datos" -> 18 + Len(seg.val)
      [] seg.lab = "interno" -> 15 + Len(seg.val)

\* index in the text of the first character of label i
RECURSIVE SegStart(_, _)
SegStart(fol, i) ==
    IF i = 1 THEN 0 ELSE SegStart(fol, i - 1) + SegLen(fol[i - 1]) + 1

Max(a, b) == IF a >= b THEN a ELSE b

\* re.search(pattern, text): the group of the first match, or None
RECURSIVE FirstVal(_, _)
FirstVal(fol, lab) ==
    IF fol = <<>> THEN None
    ELSE IF Head(fol).lab = lab THEN Head(fol).val
    ELSE FirstVal(Tail(fol), lab)

REGEX_FOLIO_DBA(text) == FirstVal(text.fol, "serie")
REGEX_FOLIO_DBA_ALT(text) == FirstVal(text.fol, "datos")
\* the run a '(\w+)\b' or '(\d+)\b' group takes from the start of a value: it
\* stops at the first hyphen
RECURSIVE WordRun(_)
WordRun(val) ==
    IF val = <<>> \/ Head(val) = 11 THEN <<>>
    ELSE <<Head(val)>> \o WordRun(Tail(val))

REGEX_FOLIO_TOTALNOT(text) ==
    IF FirstVal(text.fol, "interno") = None THEN None
    ELSE WordRun(FirstVal(text.fol, "interno"))

\* REGEX_FOLIO_DBA_FILENAME = '_(\d{1,5})_' on a filename given as its parts
\* between underscores: the first part that has an underscore on both sides
\* and is a run of 1 to 5 digits; None when there is none
FILENAME_MAX_DIGITS == 5

RECURSIVE FilenameSearch(_, _)
FilenameSearch(filename, i) ==
    IF i >= Len(filename) THEN None
    ELSE IF isdigit(filename[i]) /\ Len(filename[i]) <= FILENAME_MAX_DIGITS
         THEN filename[i]
    ELSE FilenameSearch(filename, i + 1)

REGEX_FOLIO_DBA_FILENAME(filename) == FilenameSearch(filename, 2)

\* the markers find_folio and the row builders use in place of a value
NOT_FOUND == <<-1>>
FOLIO_FISCAL_SUSPECTED == <<-2>>
ERROR == <<-3>>
NA == <<-4>>
TEXT_EXTRACTION_FAILED == <<-5>>
Text_Extraction_Failed == <<-6>>

\* contpaq_simple_pattern '\bFOLIO:\s*(\w+)\b' (IGNORECASE): the matches in
\* text order, each with its start index; it also matches inside
\* "DATOS CFDI Folio: <val>", 11 characters in
RECURSIVE contpaq_matches(_, _)
contpaq_matches(fol, i) ==
    IF i > Len(fol) THEN <<>>
    ELSE (CASE fol[i].lab = "folio" ->
                   << [start |-> SegStart(fol, i), group1 |-> fol[i].val] >>
            [] fol[i].lab = "datos" ->
                   << [start |-> SegStart(fol, i) + 11, group1 |-> fol[i].val] >>
            [] OTHER -> <<>>)
         \o contpaq_matches(fol, i + 1)

\* re.search(r'\bFolio\s+fiscal\b', text[max(0, start_index - n) : start_index])
PrecededByFiscal(fol, start_index, n) ==
    \E j \in 1..Len(fol) :
        /\ fol[j].lab = "fiscal"
        /\ SegStart(fol, j) >= Max(0, start_index - n)
        /\ SegStart(fol, j) + SegLen(fol[j]) <= start_index

LOOKBACK == 30
FOLIO_MAX_LEN == 20
FILENAME_FOLIO_LIMIT == 20

\* "for match in reversed(matches): if not <preceded>: candidate = ...; break"
RECURSIVE LastAccepted(_, _, _)
LastAccepted(fol, matches, k) ==
    IF k = 0 THEN None
    ELSE IF ~PrecededByFiscal(fol, matches[k].start, LOOKBACK)
         THEN matches[k].group1
    ELSE LastAccepted(fol, matches, k - 1)

\* a CONTPAQ branch that falls back to the last accepted match of at most 20
\* characters when there is one
contpaq_candidate_fallback(text) ==
    LET matches == contpaq_matches(text.fol, 1)
        short == SelectSeq(matches, LAMBDA m : Len(m.group1) <= FOLIO_MAX_LEN)
        fallback == LastAccepted(text.fol, short, Len(short))
    IN  IF fallback # None THEN fallback
        ELSE LastAccepted(text.fol, matches, Len(matches))

\* the CONTPAQ branch of find_folio
contpaq_candidate(text) ==
    LET matches == contpaq_matches(text.fol, 1)
    IN  LastAccepted(text.fol, matches, Len(matches))

\* the DBA branch with the text searched first and the filename as fallback
dba_candidate_text_first(text, filename) ==
    LET from_text == IF ~Truthy(text) THEN None
                     ELSE IF REGEX_FOLIO_DBA(text) # None THEN REGEX_FOLIO_DBA(text)
                     ELSE REGEX_FOLIO_DBA_ALT(text)
    IN  IF from_text # None THEN from_text
        ELSE IF filename # <<>> THEN REGEX_FOLIO_DBA_FILENAME(filename)
        ELSE None

\* the DBA branch of find_folio: the filename first, then the text
dba_candidate(text, filename) ==
    LET filename_match == IF filename # <<>>
                          THEN REGEX_FOLIO_DBA_FILENAME(filename) ELSE None
        from_name == IF /\ filename_match # None
                        /\ isdigit(filename_match)
                        /\ Len(filename_match) < FILENAME_FOLIO_LIMIT
                     THEN filename_match ELSE None
    IN  IF from_name = None /\ Truthy(text)
        THEN IF REGEX_FOLIO_DBA(text) # None THEN REGEX_FOLIO_DBA(text)
             ELSE REGEX_FOLIO_DBA_ALT(text)
        ELSE from_name

\* "Final Checks & Return" of find_folio
final_checks(folio) ==
    IF folio # None /\ Len(folio) > FOLIO_MAX_LEN THEN FOLIO_FISCAL_SUSPECTED
    ELSE IF folio = None THEN NOT_FOUND
    ELSE folio

\* the value of "folio" when find_folio reaches its final checks
folio_candidate(text, type, filename) ==
    CASE type = "DBA" -> dba_candidate(text, filename)
      [] type = "TOTALNOT" ->
             IF Truthy(text) THEN REGEX_FOLIO_TOTALNOT(text) ELSE None
      [] type = "CONTPAQ" ->
             IF Truthy(text) THEN contpaq_candidate(text) ELSE None
      [] OTHER -> None

\* find_folio of Moldularversion/logic.py
find_folio(text, type, filename) ==
    IF ~Truthy(text) /\ type # "DBA" THEN NOT_FOUND
    ELSE final_checks(folio_candidate(text, type, filename))

\* find_folio of FunctionalityStable.py: no filename rule; in the CONTPAQ
\* branch the loop runs forward, looks back 25 characters and stops at the
\* first match accepted; the result is None when nothing is found or the
\* value is longer than 20 characters
LOOKBACK_STABLE == 25

RECURSIVE FirstAccepted(_, _, _)
FirstAccepted(fol, matches, k) ==
    IF k > Len(matches) THEN None
    ELSE IF ~PrecededByFiscal(fol, matches[k].start, LOOKBACK_STABLE)
         THEN matches[k].group1
    ELSE FirstAccepted(fol, matches, k + 1)

find_folio_stable(text, type) ==
    IF ~Truthy(text) THEN None
    ELSE LET folio ==
               CASE type = "DBA" ->
                        IF REGEX_FOLIO_DBA(text) # None THEN REGEX_FOLIO_DBA(text)
                        ELSE REGEX_FOLIO_DBA_ALT(text)
                 [] type = "TOTALNOT" -> REGEX_FOLIO_TOTALNOT(text)
                 [] type = "CONTPAQ" ->
                        FirstAccepted(text.fol, contpaq_matches(text.fol, 1), 1)
                 [] OTHER -> None
         IN  IF folio # None /\ Len(folio) > FOLIO_MAX_LEN THEN None ELSE folio

\* ------------------------------------------------------------------------
\* The Folio step of analyze_pdfs (pdf_processor.py): FOLIO_PATTERNS tried in
\* order, each by its first match in the text; the first match accepted wins
\* ------------------------------------------------------------------------
Not_Found == <<-7>>

\* pattern.search(text): the group of the first label the pattern matches,
\* groups[i] being what the pattern captures at label i (None: no match there)
FirstGroup(groups) ==
    LET hits == { i \in 1..Len(groups) : groups[i] # None }
    IN  IF hits = {} THEN None
        ELSE groups[CHOOSE i \in hits : \A j \in hits : i <= j]

AtLeast2(val) == IF Len(val) >= 2 THEN val ELSE None

\* '\bFOLIO\s*:\s*([A-Za-z0-9/-]{2,})\b'
FOLIO_PATTERN_1(text) ==
    LET Group(seg) == IF seg.lab \in {"folio", "datos"}
                      THEN AtLeast2(seg.val) ELSE None
    IN  FirstGroup([i \in 1..Len(text.fol) |-> Group(text.fol[i])])

\* '\bFolio\s*Interno\s*:?\s+(<8-4-4-4-12>)\b'
is_uuid(s) ==
    /\ Len(s) = 36
    /\ \A i \in 1..Len(s) :
           IF i \in {9, 14, 19, 24} THEN s[i] = 11 ELSE s[i] \in 0..9

FOLIO_PATTERN_2(text) ==
    LET Group(seg) == IF seg.lab = "interno" /\ is_uuid(seg.val)
                      THEN seg.val ELSE None
    IN  FirstGroup([i \in 1..Len(text.fol) |-> Group(text.fol[i])])

\* '\b(?:Folio|Factura)\s*(?:N[oO]\.?|#)?\s*:?\s+([A-Za-z0-9/-]{2,})\b': the word
\* after "Folio" is captured too ("fiscal", "interno")
FOLIO_PATTERN_3(text) ==
    LET Group(seg) ==
            CASE seg.lab \in {"folio", "serie", "datos"} -> AtLeast2(seg.val)
              [] seg.lab = "fiscal" -> Rep(10, 6)
              [] seg.lab = "interno" -> Rep(10, 7)
              [] OTHER -> None
    IN  FirstGroup([i \in 1..Len(text.fol) |-> Group(text.fol[i])])

\* '\bFolio\s+interno\s*:\s*(\d+)\b'
FOLIO_PATTERN_4(text) ==
    LET Group(seg) == IF seg.lab = "interno" THEN WordRun(seg.val) ELSE None
    IN  FirstGroup([i \in 1..Len(text.fol) |-> Group(text.fol[i])])

FOLIO_PATTERNS(text) ==
    << FOLIO_PATTERN_1(text), FOLIO_PATTERN_2(text),
       FOLIO_PATTERN_3(text), FOLIO_PATTERN_4(text) >>

REGEX_FOLIO_LIMIT == 20

\* "if potential_folio and (len(potential_folio) < 20 or is_uuid)"
folio_accepted(potential_folio) ==
    /\ potential_folio # None
    /\ (Len(potential_folio) < REGEX_FOLIO_LIMIT \/ is_uuid(potential_folio))

RECURSIVE regex_folio_from(_, _)
regex_folio_from(matches, i) ==
    IF i > Len(matches) THEN Not_Found
    ELSE IF folio_accepted(matches[i]) THEN matches[i]
    ELSE regex_folio_from(matches, i + 1)

\* regex_folio_number after the loop over FOLIO_PATTERNS
regex_folio_number(text) == regex_folio_from(FOLIO_PATTERNS(text), 1)

\* ------------------------------------------------------------------------
\* State
\* ------------------------------------------------------------------------
VARIABLES
    pc,            \* position of the run
    variant,       \* the source variant whose function ran
    invoice_type,  \* 'DBA', 'TOTALNOT', 'CONTPAQ'
    text,          \* the text of the document at hand
    filename,      \* its file name, as the parts between underscores
    folio,         \* what the Folio Resolver returned
    references,    \* the list a reference finder returned
    pdf_files,     \* the documents of the batch, in processing order
    handled,       \* how many of them the batch loop has handled
    all_data,      \* the rows appended so far (all_data / all_extracted_data)
    count,         \* the counters of the batch loop
    findings,      \* regex_file_findings of the document at hand
    llm,           \* what the oracle did for the document at hand
    posts,         \* the requests sent to the oracle endpoint for that
                   \* document, each with what it came to
    df,            \* the table written to the output file
    app,           \* the InvoiceProcessorApp object: its fields and its tree
    timers,        \* the callbacks scheduled with master_gui.after, in the
                   \* order of their expiry, each with the time it has left
    threads,       \* the threads running run_processing
    started,       \* how many batches start_processing has started
    last           \* the handler or callback the GUI thread ran last

vars == <<pc, variant, invoice_type, text, filename, folio, references,
          pdf_files, handled, all_data, count, findings, llm, posts, df,
          app, timers, threads, started, last>>

\* the variables of the desktop application
desk == <<app, timers, threads, started, last>>

\* the variables of the batch loop
batch == <<pdf_files, handled, all_data, count, findings, llm, posts, df>>

ZeroCount ==
    [ files_processed_count |-> 0, files_with_errors |-> 0, rows_added_count |-> 0,
      processed_files |-> 0, errors_occurred |-> 0,
      llm_fallbacks |-> 0, llm_successes |-> 0 ]

\* llm before any oracle call: status "not_invoked"; after a call that gave
\* None: "unavailable"; after a call that gave a validated dict: "ok"; after
\* a call that raised: "raised" (the except clauses of analyze_pdfs take over)
NoLlm(status) ==
    [ status |-> status, folio_number |-> <<>>, document_type |-> "",
      document_id |-> <<>> ]

\* a DataFrame is the sequence of its rows, each with its index label;
\* self.dataframe is such a frame or None
NoFrame == [is_none |-> TRUE, rows |-> <<>>]
DataFrame(rows) == [is_none |-> FALSE, rows |-> rows]

\* InvoiceProcessorApp.__init__: the fields of a new application object; the
\* tree is the sequence of its items ("get_children"), _df_index_map the set
\* of its (key, value) pairs, _edit_entry whether an Entry widget is open
InvoiceProcessorApp ==
    [ selected_folder |-> "No folder selected",
      processing_active |-> FALSE,
      dataframe |-> NoFrame,
      current_excel_file |-> "None",
      tree |-> <<>>,
      _df_index_map |-> {},
      _edit_entry |-> FALSE,
      _edit_item_id |-> <<>>,
      _edit_column_id |-> "None",
      _clipboard |-> <<>>,
      _tree_current_sort_col |-> "None",
      _tree_current_sort_ascending |-> TRUE ]

NoHandler == [handler |-> "__init__", reloaded |-> FALSE]

\* the application before mainloop() has served an event
NoDesk ==
    /\ app = InvoiceProcessorApp
    /\ timers = <<>>
    /\ threads = <<>>
    /\ started = 0
    /\ last = NoHandler

NoBatch ==
    /\ NoDesk
    /\ pdf_files = <<>>
    /\ handled = 0
    /\ all_data = <<>>
    /\ count = ZeroCount
    /\ findings = {}
    /\ llm = NoLlm("not_invoked")
    /\ posts = <<>>
    /\ df = <<>>

InvoiceTypes == {"DBA", "TOTALNOT", "CONTPAQ"}

\* "A_123_A.pdf", "A_123456_7_A.pdf", "123_A.pdf" and no name
Filenames == { <<>>,
               << <<10>>, <<1, 2, 3>>, <<10>> >>,
               << <<10>>, <<1, 2, 3, 4, 5, 6>>, <<7>>, <<10>> >>,
               << <<1, 2, 3>>, <<10>> >> }

\* ------------------------------------------------------------------------
\* SpecRef: the reference finders applied to every text of the bounds
\* ------------------------------------------------------------------------
RefTexts == {TextNone, TextEmpty} \cup { TextOf(cs, NoFolioText) : cs \in ConstructSeqs }

InitRef ==
    /\ pc = "start"
    /\ variant = "?"
    /\ invoice_type = "?"
    /\ text \in RefTexts
    /\ filename = <<>>
    /\ folio = None
    /\ references = <<>>
    /\ NoBatch

CallDba ==
    /\ pc = "start"
    /\ pc' = "done"
    /\ invoice_type' = "DBA"
    /\ references' = find_references_dba(text)
    /\ UNCHANGED <<variant, text, filename, folio>>
    /\ UNCHANGED batch
    /\ UNCHANGED desk

CallTotalnot ==
    /\ pc = "start"
    /\ pc' = "done"
    /\ invoice_type' = "TOTALNOT"
    /\ references' = find_references_totalnot(text)
    /\ UNCHANGED <<variant, text, filename, folio>>
    /\ UNCHANGED batch
    /\ UNCHANGED desk

CallContpaq ==
    /\ pc = "start"
    /\ pc' = "done"
    /\ invoice_type' = "CONTPAQ"
    /\ references' = find_references_contpaq(text)
    /\ UNCHANGED <<variant, text, filename, folio>>
    /\ UNCHANGED batch
    /\ UNCHANGED desk

NextRef == CallDba \/ CallTotalnot \/ CallContpaq

SpecRef == InitRef /\ [][NextRef]_vars

\* ------------------------------------------------------------------------
\* SpecFolio: the Folio Resolver applied to every document of the bounds
\* ------------------------------------------------------------------------
InitFolio ==
    /\ pc = "start"
    /\ variant = "?"
    /\ invoice_type \in InvoiceTypes
    /\ text \in {TextNone, TextEmpty} \cup { TextOf(<<>>, f) : f \in FolioTexts }
    /\ filename \in Filenames
    /\ folio = None
    /\ references = <<>>
    /\ NoBatch

CallFindFolio ==
    /\ pc = "start"
    /\ pc' = "done"
    /\ variant' = "logic"
    /\ folio' = find_folio(text, invoice_type, filename)
    /\ UNCHANGED <<invoice_type, text, filename, references>>
    /\ UNCHANGED batch
    /\ UNCHANGED desk

CallFindFolioStable ==
    /\ pc = "start"
    /\ pc' = "done"
    /\ variant' = "stable"
    /\ folio' = find_folio_stable(text, invoice_type)
    /\ UNCHANGED <<invoice_type, text, filename, references>>
    /\ UNCHANGED batch
    /\ UNCHANGED desk

\* the Folio step of one analyze_pdfs iteration, on a text that was extracted
CallRegexFolio ==
    /\ pc = "start"
    /\ Truthy(text)
    /\ pc' = "done"
    /\ variant' = "oracle"
    /\ folio' = regex_folio_number(text)
    /\ UNCHANGED <<invoice_type, text, filename, references>>
    /\ UNCHANGED batch
    /\ UNCHANGED desk

NextFolio == CallFindFolio \/ CallFindFolioStable \/ CallRegexFolio

SpecFolio == InitFolio /\ [][NextFolio]_vars

\* ------------------------------------------------------------------------
\* Spec: a batch of documents through the per-document pipelines
\*   variant "pattern": the loop of run_processing over process_single_pdf
\*   variant "oracle":  the loop of analyze_pdfs
\* ------------------------------------------------------------------------
MaxDocs == 2

\* A document of the batch:
\*   name  its file name (parts between underscores)
\*   open  what opening and reading the PDF does: "ok", "encrypted" (the empty
\*         password is refused) or "error" (fitz raises)
\*   text  the text of its pages when they can be read
\*   hits  the (Type, ID) pairs ESCRITURA_REGEX, ACTA_REGEX and
\*         parse_potentially_multiple_ids yield on that text, in the order
\*         they are found
Doc(name, open, t, hits) == [name |-> name, open |-> open, text |-> t, hits |-> hits]

NameWithFolio == << <<10>>, <<1, 2, 3>>, <<10>> >>
NameNoFolio == << <<1, 2, 3>>, <<10>> >>

FolioLabel(v) == [lab |-> "folio", val |-> v, len |-> 0]

DocInputs ==
    { Doc(NameWithFolio, "error", TextNone, <<>>),
      Doc(NameNoFolio, "error", TextNone, <<>>),
      Doc(NameNoFolio, "encrypted", TextNone, <<>>),
      Doc(NameNoFolio, "ok", TextEmpty, <<>>),
      Doc(NameNoFolio, "ok", TextOf(<<>>, <<>>), <<>>),
      Doc(NameNoFolio, "ok", TextOf(<<>>, <<FolioLabel(<<4, 2>>)>>), <<>>),
      Doc(NameNoFolio, "ok", TextOf(<<>>, <<FolioLabel(Rep(3, 21))>>), <<>>),
      Doc(NameNoFolio, "ok", TextOf(<<Single(ESC, <<1, 0, 0>>)>>, <<>>),
          << <<ESC, <<1, 0, 0>>>> >>),
      Doc(NameNoFolio, "ok",
          TextOf(<<Single(ESC, <<2, 0>>), Single(ESC, <<1, 0, 0>>)>>, <<>>),
          << <<ESC, <<2, 0>>>>, <<ESC, <<1, 0, 0>>>> >>),
      Doc(NameWithFolio, "ok",
          TextOf(<<Single(ESC, <<1, 0, 0>>), Single(ACTA, <<1, 0, 0>>),
                   Single(ESC, <<1, 0, 0>>)>>,
                 <<FolioLabel(<<4, 2>>)>>),
          << <<ESC, <<1, 0, 0>>>>, <<ACTA, <<1, 0, 0>>>>, <<ESC, <<1, 0, 0>>>> >>) }

Batches == UNION { [1..n -> DocInputs] : n \in 1..MaxDocs }

\* values written in place of a number in ERROR rows
Returned_Nothing == <<-8>>

\* a row of the batch result; src is the position of its document in the
\* batch ("Full PDF Path" / "Filename"), Type is "Document Type" / "Type",
\* Number is "Reference Number" / "ID_Number", Folio is "Invoice Folio" /
\* "Folio_Number"
Row(src, type, number, fol) ==
    [src |-> src, Type |-> type, Number |-> number, Folio |-> fol]

\* extract_text_from_pdf: None when opening or reading raises
extract_text_from_pdf(d) == IF d.open = "ok" THEN d.text ELSE TextNone

find_references(type, t) ==
    CASE type = "DBA" -> find_references_dba(t)
      [] type = "TOTALNOT" -> find_references_totalnot(t)
      [] type = "CONTPAQ" -> find_references_contpaq(t)
      [] OTHER -> <<>>

\* "Assemble Output Rows" of process_single_pdf with the sentinel rows (Case 2
\* and the closing catch-all) left out
output_rows_no_sentinel(src, t, type, fol, refs) ==
    [k \in 1..Len(refs) |-> Row(src, refs[k].Type, refs[k].Number, fol)]

\* "Assemble Output Rows" of process_single_pdf
output_rows(src, t, type, fol, refs) ==
    LET first ==
            IF /\ t.st = "none" /\ type = "DBA"
               /\ fol \notin {NOT_FOUND, ERROR, FOLIO_FISCAL_SUSPECTED}
            THEN <<Row(src, "N/A", TEXT_EXTRACTION_FAILED, fol)>>
            ELSE IF t.st # "none" /\ refs = <<>>
            THEN <<Row(src, "N/A", NA, fol)>>
            ELSE IF refs # <<>>
            THEN [k \in 1..Len(refs) |-> Row(src, refs[k].Type, refs[k].Number, fol)]
            ELSE <<>>
    IN  IF first = <<>> /\ t.st = "none" /\ fol \in {NOT_FOUND, ERROR}
        THEN <<Row(src, "ERROR", Text_Extraction_Failed,
                   IF fol = NOT_FOUND THEN fol ELSE ERROR)>>
        ELSE IF first = <<>> THEN <<Row(src, "N/A", NA, fol)>>
        ELSE first

\* process_single_pdf: the locals it computes and the rows it returns
process_single_pdf(src, d, type) ==
    LET t == extract_text_from_pdf(d)
    IN  IF t.st = "none" /\ type # "DBA"
        THEN [text |-> t, folio |-> None, references |-> <<>>,
              rows |-> <<Row(src, "ERROR", Text_Extraction_Failed, ERROR)>>]
        ELSE LET fol == find_folio(t, type, d.name)
                 refs == IF Truthy(t) THEN find_references(type, t) ELSE <<>>
             IN  [text |-> t, folio |-> fol, references |-> refs,
                  rows |-> output_rows(src, t, type, fol, refs)]

\* "any(row.get("Document Type") == "ERROR" for row in results)"
had_error(results) == \E k \in 1..Len(results) : results[k].Type = "ERROR"

\* counters that count a file with an ERROR row as processed as well
count_file_twice(c, results) ==
    IF results # <<>>
    THEN [c EXCEPT !.rows_added_count = @ + Len(results),
                   !.files_with_errors = IF had_error(results) THEN @ + 1 ELSE @,
                   !.files_processed_count = @ + 1]
    ELSE [c EXCEPT !.rows_added_count = @ + 1, !.files_with_errors = @ + 1]

\* the counters of run_processing after the results of one file
count_file(c, results) ==
    IF results # <<>>
    THEN [c EXCEPT !.rows_added_count = @ + Len(results),
                   !.files_with_errors = IF had_error(results) THEN @ + 1 ELSE @,
                   !.files_processed_count = IF had_error(results) THEN @ ELSE @ + 1]
    ELSE [c EXCEPT !.rows_added_count = @ + 1, !.files_with_errors = @ + 1]

\* the loop with an exception of a failed document passing through it
after_document_propagating(failed) == IF failed THEN "aborted" ELSE "loop"

\* where the batch stands after the step of one document.  The step is the
\* body of a try whose last except clause is "except Exception" (and
\* process_single_pdf, extract_text_from_pdf and query_llm_for_details catch
\* what is raised inside them): whatever came of the document, the for loop
\* takes the next one
after_document(failed) == "loop"

\* one iteration of the loop of run_processing
ProcessFile ==
    /\ pc = "loop"
    /\ variant = "pattern"
    /\ handled < Len(pdf_files)
    /\ LET src == handled + 1
           d == pdf_files[src]
           r == process_single_pdf(src, d, invoice_type)
           had_error_in_results == had_error(r.rows)
       IN  /\ handled' = src
           /\ pc' = after_document(r.rows = <<>> \/ had_error_in_results)
           /\ text' = r.text
           /\ filename' = d.name
           /\ folio' = r.folio
           /\ references' = r.references
           /\ all_data' =
                IF r.rows # <<>> THEN all_data \o r.rows
                ELSE Append(all_data, Row(src, "ERROR", Returned_Nothing, ERROR))
           /\ count' = count_file(count, r.rows)
    /\ UNCHANGED <<variant, invoice_type, pdf_files, findings, llm, posts, df>>
    /\ UNCHANGED desk

\* ------------------------------------------------------------------------
\* The oracle: query_llm_for_details
\* ------------------------------------------------------------------------
\* What query_llm_for_details returns: None, or a validated dict.  A
\* document_id is a string of digits and separators: 12 is ';', 13 is ','.
Validated(fol, type, id) ==
    [ status |-> "ok", folio_number |-> fol, document_type |-> type,
      document_id |-> id ]

MaxPieces == 2

\* a key that is missing from the JSON object, or whose value is null
Null == <<-9>>
NullType == "<null>"

\* The JSON texts a reply can hold:
\*   object  a flat object with at least one key, '{"folio_number": ..,
\*           "document_type": .., "document_id": ..}' (a field may be
\*           missing, null or "")
\*   nested  such an object with a nested object in front of the fields,
\*           '{"meta": {"n": 1}, "folio_number": ..}'
\*   empty   '{}'
\*   bad     braces around something that is not JSON, '{folio: 5}'
\*   scalar  JSON that is no object and has no braces: '5', '"text"', '[1]'
Json(kind, fol, type, id) ==
    [ json |-> kind, folio_number |-> fol, document_type |-> type,
      document_id |-> id ]

Obj(fol, type, id) == Json("object", fol, type, id)
Nested(fol, type, id) == Json("nested", fol, type, id)
EmptyObject == Json("empty", Null, NullType, Null)
Bad == Json("bad", Null, NullType, Null)
Scalar == Json("scalar", Null, NullType, Null)
NoJson == Json("none", Null, NullType, Null)

\* The reply (message content, a string) is a sequence of pieces:
\*   text   prose without braces or fences
\*   fence  a fenced block, '```json' body '```'
\*   bare   a JSON text standing in the reply as it is
Piece(kind, body) == [kind |-> kind, body |-> body]
Prose == Piece("text", NoJson)

FolioValues == { Null, <<>>, NA, <<5, 5>> }
TypeValues == { NullType, "", "N/A", ESC, ACTA, "Both", "escritura" }
IdValues == { Null, <<>>, NA, <<8>>, <<8, 12, 1, 0>> }

\* every combination of field values, for a reply that is one JSON object
Objects == { Obj(f, t, i) : f \in FolioValues, t \in TypeValues, i \in IdValues }

\* the JSON texts of the replies made of several pieces
SomeObjects == { Obj(<<5, 5>>, ESC, <<8>>), Obj(NA, "N/A", <<8>>) }
FenceBodies == SomeObjects \cup { Nested(<<5, 5>>, ACTA, <<1, 0>>), EmptyObject, Bad }
BareBodies == FenceBodies \cup { Scalar }
Pieces == { Prose } \cup { Piece("fence", b) : b \in FenceBodies }
                    \cup { Piece("bare", b) : b \in BareBodies }

Contents ==
    UNION { [1..n -> Pieces] : n \in 0..MaxPieces }
    \cup { <<Piece("bare", o)>> : o \in Objects }

\* What one requests.post and the reading of its response come to:
\*   timeout, connection_error, request_error   requests.post raises
\*   http_error         raise_for_status raises (4xx, 5xx)
\*   not_json           response.json() raises
\*   no_choices         no "choices" key;  empty_choices: "choices": []
\*   content_not_str    the message content is missing, null or no string
\*   content            the message content is the string `content`
Response(outcome, content) == [outcome |-> outcome, content |-> content]

Failures ==
    { Response(o, <<>>) :
        o \in { "timeout", "connection_error", "request_error", "http_error",
                "not_json", "no_choices", "empty_choices", "content_not_str" } }

Responses == Failures \cup { Response("content", c) : c \in Contents }

\* json.loads(message_content): the whole reply is one JSON text; NoJson
\* stands for JSONDecodeError
json_loads_whole(content) ==
    IF Len(content) = 1 /\ content[1].kind = "bare" /\ content[1].body.json # "bad"
    THEN content[1].body
    ELSE NoJson

\* re.search: the first place of the reply where the pattern matches, or 0;
\* matches[i] tells whether it matches at piece i
search(matches) ==
    LET hits == { i \in 1..Len(matches) : matches[i] }
    IN  IF hits = {} THEN 0 ELSE CHOOSE i \in hits : \A j \in hits : i <= j

\* re.search(r'```json\s*(\{.*?\})\s*```', message_content): group 1 is the
\* body of the first fenced block, up to the '}' in front of the closing fence
fence_match(content) ==
    LET k == search([i \in 1..Len(content) |-> content[i].kind = "fence"])
    IN  IF k = 0 THEN NoJson ELSE content[k].body

\* re.search(r'(\{.*?\})', message_content): group 1 runs from the first '{'
\* of the reply to the first '}' after it, which cuts a nested object short
span_match(content) ==
    LET braces == {"object", "nested", "empty", "bad"}
        k == search([i \in 1..Len(content) |-> content[i].body.json \in braces])
    IN  IF k = 0 THEN NoJson
        ELSE IF content[k].body.json = "nested" THEN Bad
        ELSE content[k].body

\* "Attempt to extract JSON robustly": the value of extracted_data, NoJson
\* where the function returns None instead
extracted_data(content) ==
    LET whole == json_loads_whole(content)
        json_string_found ==
            IF fence_match(content) # NoJson THEN fence_match(content)
            ELSE span_match(content)
    IN  IF whole # NoJson THEN whole
        ELSE IF json_string_found = NoJson \/ json_string_found.json = "bad"
        THEN NoJson
        ELSE json_string_found

\* the types with a lower-case spelling allowed as well
allowed_types_any_case == {ESC, ACTA, "Both", "N/A", "escritura"}

allowed_types == {ESC, ACTA, "Both", "N/A"}

\* validation that leaves the id alone when the type is N/A
validated_data_keeps_id(data) ==
    LET value(v) == IF v = Null \/ v = <<>> THEN NA ELSE v
        doc_type == IF data.document_type \in {NullType, ""} THEN "N/A"
                    ELSE data.document_type
    IN  Validated(value(data.folio_number),
                  IF doc_type \notin allowed_types THEN "N/A" ELSE doc_type,
                  value(data.document_id))

\* "Validation and Normalization" of a parsed object with keys
validated_data(data) ==
    LET value(v) == IF v = Null \/ v = <<>> THEN NA ELSE v
        doc_type == IF data.document_type \in {NullType, ""} THEN "N/A"
                    ELSE data.document_type
        document_type == IF doc_type \notin allowed_types THEN "N/A" ELSE doc_type
    IN  Validated(value(data.folio_number), document_type,
                  IF document_type = "N/A" THEN NA ELSE value(data.document_id))

\* a call that sends the request again when the first one failed in transit
requests_post_retry(response) ==
    IF response.outcome \in {"timeout", "connection_error", "http_error"}
    THEN <<response, response>>
    ELSE <<response>>

\* the requests one call of query_llm_for_details sends: one requests.post,
\* whatever it comes to
requests_post(response) == <<response>>

\* query_llm_for_details without the except clause for a timeout
query_llm_for_details_raising(response) ==
    IF response.outcome = "timeout" THEN NoLlm("raised")
    ELSE IF response.outcome # "content" \/ response.content = <<>>
    THEN NoLlm("unavailable")
    ELSE LET data == extracted_data(response.content)
         IN  IF data.json \in {"object", "nested"}
             THEN validated_data(data)
             ELSE NoLlm("unavailable")

\* query_llm_for_details, given what its one request comes to
query_llm_for_details(response) ==
    IF response.outcome # "content" \/ response.content = <<>>
    THEN NoLlm("unavailable")
    ELSE LET data == extracted_data(response.content)
         IN  IF data.json \in {"object", "nested"}
             THEN validated_data(data)
             ELSE NoLlm("unavailable")

\* ------------------------------------------------------------------------
\* SpecLlm: query_llm_for_details on every answer of the oracle endpoint
\* ------------------------------------------------------------------------
InitLlm ==
    /\ pc = "start"
    /\ variant = "oracle"
    /\ invoice_type = "?"
    /\ text = TextOf(<<>>, NoFolioText)
    /\ filename = <<>>
    /\ folio = None
    /\ references = <<>>
    /\ NoBatch

QueryLlm ==
    /\ pc = "start"
    /\ pc' = "done"
    /\ \E response \in Responses :
           /\ llm' = query_llm_for_details(response)
           /\ posts' = requests_post(response)
    /\ UNCHANGED <<variant, invoice_type, text, filename, folio, references>>
    /\ UNCHANGED <<pdf_files, handled, all_data, count, findings, df>>
    /\ UNCHANGED desk

NextLlm == QueryLlm

SpecLlm == InitLlm /\ [][NextLlm]_vars

\* ------------------------------------------------------------------------
\* The rows of analyze_pdfs
\* ------------------------------------------------------------------------
\* "';' in llm_id" and "map(str.strip, llm_id.split(';', 1))"
HasSemicolon(id) == \E k \in 1..Len(id) : id[k] = 12
FirstSemicolon(id) == CHOOSE k \in 1..Len(id) : id[k] = 12 /\ \A j \in 1..(k - 1) : id[j] # 12
esc_ids_str(id) == SubSeq(id, 1, FirstSemicolon(id) - 1)
act_ids_str(id) == SubSeq(id, FirstSemicolon(id) + 1, Len(id))

\* the Folio of the patterns kept whatever the oracle found
final_folio_regex(llm_folio, regex_folio) == regex_folio

\* "final_folio = llm_folio if llm_folio != 'N/A' else regex_folio_number"
final_folio(llm_folio, regex_folio) ==
    IF llm_folio # NA THEN llm_folio ELSE regex_folio

\* "Add LLM data to results": the rows built from a validated dict
llm_rows(src, result, regex_folio) ==
    LET llm_folio == result.folio_number
        llm_type == result.document_type
        llm_id == result.document_id
        folio_used == final_folio(llm_folio, regex_folio)
    IN  IF llm_type = "Both" /\ llm_id # NA /\ HasSemicolon(llm_id)
        THEN LET esc == esc_ids_str(llm_id)
                 act == act_ids_str(llm_id)
                 esc_ok == esc # <<>> /\ esc # NA
                 act_ok == act # <<>> /\ act # NA
             IN  (IF esc_ok THEN <<Row(src, ESC, esc, folio_used)>> ELSE <<>>)
                 \o (IF act_ok THEN <<Row(src, ACTA, act, folio_used)>>
                     ELSE IF ~esc_ok /\ ~act_ok
                          THEN <<Row(src, "Both", NA, folio_used)>>
                     ELSE <<>>)
        ELSE IF llm_type \in {ESC, ACTA}
        THEN <<Row(src, llm_type, llm_id, folio_used)>>
        ELSE <<Row(src, IF llm_type = "Both" THEN "Both" ELSE "N/A", NA, folio_used)>>

\* sorted(list(regex_file_findings)): by Type, then by ID as strings
PairLess(p, q) ==
    \/ TypeRank(p[1]) < TypeRank(q[1])
    \/ p[1] = q[1] /\ StrLess(p[2], q[2])

RECURSIVE sorted(_)
sorted(set) ==
    IF set = {} THEN <<>>
    ELSE LET least == CHOOSE p \in set : \A q \in set \ {p} : PairLess(p, q)
         IN  <<least>> \o sorted(set \ {least})

\* the regex rows with only the first Type/ID pair emitted
regex_rows_first_only(src, regex_file_findings, regex_folio) ==
    IF regex_file_findings # {}
    THEN LET pairs == sorted(regex_file_findings)
         IN  <<Row(src, pairs[1][1], pairs[1][2], regex_folio)>>
    ELSE <<Row(src, "N/A", NA, regex_folio)>>

\* "Add Regex findings (ONLY if LLM wasn't successfully used)"
regex_rows(src, regex_file_findings, regex_folio) ==
    IF regex_file_findings # {}
    THEN LET pairs == sorted(regex_file_findings)
         IN  [k \in 1..Len(pairs) |-> Row(src, pairs[k][1], pairs[k][2], regex_folio)]
    ELSE <<Row(src, "N/A", NA, regex_folio)>>

\* rows of a document with the pattern findings added to the oracle's rows
file_rows_merged(src, llm_result, regex_file_findings, regex_folio) ==
    CASE llm_result.status = "ok" ->
            llm_rows(src, llm_result, regex_folio)
                \o regex_rows(src, regex_file_findings, regex_folio)
      [] llm_result.status = "raised" -> <<>>
      [] OTHER -> regex_rows(src, regex_file_findings, regex_folio)

\* the rows appended for a document that has text: those of the oracle when
\* it gave a result (llm_processed), else the pattern rows; none when the
\* call raised
file_rows(src, llm_result, regex_file_findings, regex_folio) ==
    CASE llm_result.status = "ok" -> llm_rows(src, llm_result, regex_folio)
      [] llm_result.status = "raised" -> <<>>
      [] OTHER -> regex_rows(src, regex_file_findings, regex_folio)

\* the oracle asked for every document that has text
is_incomplete_always(regex_folio, regex_file_findings) == TRUE

\* the answers of the oracle endpoint in the batches
DocResponses ==
    Failures
    \cup { Response("content", <<>>),
           Response("content", <<Prose, Piece("bare", Bad)>>) }
    \cup { Response("content", <<Piece("bare", o)>>) :
             o \in { Obj(Null, "N/A", NA),
                     Obj(<<5, 5>>, "N/A", <<8>>),
                     Obj(<<5, 5>>, "escritura", <<8>>),
                     Obj(<<5, 5>>, NullType, <<8>>),
                     Obj(<<5, 5>>, "", <<8>>),
                     Obj(<<5, 5>>, ESC, <<8>>),
                     Obj(NA, ACTA, NA),
                     Obj(<<5, 5>>, "Both", <<8, 12, 1, 0>>),
                     Obj(<<5, 5>>, "Both", <<8, 13, 1, 0, 12, 1, 0>>),
                     Obj(NA, "Both", <<12, 1, 0>>),
                     Obj(NA, "Both", <<12>>),
                     Obj(NA, "Both", <<8>>) } }

\* the results query_llm_for_details gives in the batches
LlmResults == { query_llm_for_details(r) : r \in DocResponses }

\* "Trigger LLM if Folio OR Type/ID is missing"
is_incomplete(regex_folio, regex_file_findings) ==
    regex_folio = Not_Found \/ regex_file_findings = {}

\* the document is skipped or fails before anything is extracted
Skipped(d) == d.open # "ok" \/ ~Truthy(d.text)

\* one iteration of the loop of analyze_pdfs
AnalyzeFile ==
    /\ pc = "loop"
    /\ variant = "oracle"
    /\ handled < Len(pdf_files)
    /\ LET src == handled + 1
           d == pdf_files[src]
           regex_folio == regex_folio_number(d.text)
           regex_file_findings == { d.hits[k] : k \in 1..Len(d.hits) }
       IN  /\ handled' = src
           /\ filename' = d.name
           /\ references' = <<>>
           /\ IF Skipped(d)
              THEN \* "continue" (encrypted, no text) or an except clause
                   /\ text' = IF d.open = "ok" THEN d.text ELSE TextNone
                   /\ folio' = Not_Found
                   /\ findings' = {}
                   /\ llm' = NoLlm("not_invoked")
                   /\ posts' = <<>>
                   /\ pc' = after_document(TRUE)
                   /\ all_data' = all_data
                   /\ count' = [count EXCEPT
                                  !.processed_files = @ + 1,
                                  !.errors_occurred =
                                      IF d.open # "ok" THEN @ + 1 ELSE @]
              ELSE /\ text' = d.text
                   /\ folio' = regex_folio
                   /\ findings' = regex_file_findings
                   /\ IF is_incomplete(regex_folio, regex_file_findings) /\ Truthy(d.text)
                      THEN \E response \in DocResponses :
                           LET llm_result == query_llm_for_details(response)
                           IN  /\ llm' = llm_result
                               /\ posts' = requests_post(response)
                               /\ pc' = after_document(llm_result.status # "ok")
                               /\ all_data' = all_data \o
                                    file_rows(src, llm_result,
                                              regex_file_findings, regex_folio)
                               /\ count' = [count EXCEPT
                                              !.processed_files = @ + 1,
                                              !.llm_fallbacks = @ + 1,
                                              !.llm_successes =
                                                  IF llm_result.status = "ok"
                                                  THEN @ + 1 ELSE @,
                                              !.errors_occurred =
                                                  IF llm_result.status = "raised"
                                                  THEN @ + 1 ELSE @]
                      ELSE /\ llm' = NoLlm("not_invoked")
                           /\ posts' = <<>>
                           /\ pc' = after_document(FALSE)
                           /\ all_data' = all_data \o
                                file_rows(src, NoLlm("not_invoked"),
                                          regex_file_findings, regex_folio)
                           /\ count' = [count EXCEPT !.processed_files = @ + 1]
    /\ UNCHANGED <<variant, invoice_type, pdf_files, df>>
    /\ UNCHANGED desk

\* the character code (ord) of a character of a cell; a marker such as
\* "N/A" or "Not Found" is one token, ordered by its first letter
ord(c) ==
    CASE c \in 0..9 -> 48 + c
      [] c = 10 -> 65
      [] c = 11 -> 45
      [] c = 12 -> 59
      [] c = 13 -> 44
      [] OTHER -> 78

\* s < t for the strings of a column
RECURSIVE CellLess(_, _)
CellLess(s, t) ==
    IF t = <<>> THEN FALSE
    ELSE IF s = <<>> THEN TRUE
    ELSE IF s[1] # t[1] THEN ord(s[1]) < ord(t[1])
    ELSE CellLess(Tail(s), Tail(t))

\* the order of the strings of the column "Type"
ColumnTypeRank(t) ==
    CASE t = ACTA -> 0
      [] t = "Both" -> 1
      [] t = ESC -> 2
      [] OTHER -> 3

\* row order of sort_values(by=["Filename", "Folio_Number", "Type",
\* "ID_Number"]): every column compared as a string (the index of a
\* document stands for its file name)
RowLess(r1, r2) ==
    \/ r1.src < r2.src
    \/ r1.src = r2.src /\ CellLess(r1.Folio, r2.Folio)
    \/ r1.src = r2.src /\ r1.Folio = r2.Folio
          /\ ColumnTypeRank(r1.Type) < ColumnTypeRank(r2.Type)
    \/ r1.src = r2.src /\ r1.Folio = r2.Folio /\ r1.Type = r2.Type
          /\ CellLess(r1.Number, r2.Number)

RECURSIVE sort_values(_)
sort_values(rows) ==
    IF rows = <<>> THEN <<>>
    ELSE LET rest == sort_values(Tail(rows))
             x == Head(rows)
             before == SelectSeq(rest, LAMBDA r : RowLess(r, x))
             after == SelectSeq(rest, LAMBDA r : ~RowLess(r, x))
         IN  before \o <<x>> \o after

\* drop_duplicates(): of equal rows the first is kept
drop_duplicates(rows) ==
    LET keep == { k \in 1..Len(rows) : \A j \in 1..(k - 1) : rows[j] # rows[k] }
        F[k \in 0..Len(rows)] ==
            IF k = 0 THEN <<>>
            ELSE IF k \in keep THEN Append(F[k - 1], rows[k]) ELSE F[k - 1]
    IN  F[Len(rows)]

\* df.replace("", "N/A"): an empty cell is written as N/A
replace_empty(rows) ==
    [k \in 1..Len(rows) |->
        [rows[k] EXCEPT !.Folio = IF @ = <<>> THEN NA ELSE @,
                        !.Number = IF @ = <<>> THEN NA ELSE @]]

\* "Export to Excel/CSV": the table analyze_pdfs writes
export(rows) == replace_empty(drop_duplicates(sort_values(rows)))

\* analyze_pdfs after its loop: the output file is written when there is
\* a row to write
ExportFile ==
    /\ pc = "loop"
    /\ variant = "oracle"
    /\ handled = Len(pdf_files)
    /\ pc' = "exported"
    /\ df' = IF all_data # <<>> THEN export(all_data) ELSE <<>>
    /\ UNCHANGED <<variant, invoice_type, text, filename, folio, references>>
    /\ UNCHANGED <<pdf_files, handled, all_data, count, findings, llm, posts>>
    /\ UNCHANGED desk

\* run_processing / analyze_pdfs before the first file of one of the batches
Start(batches) ==
    /\ pc = "loop"
    /\ \/ variant = "pattern" /\ invoice_type \in InvoiceTypes
       \/ variant = "oracle" /\ invoice_type = "?"
    /\ pdf_files \in batches
    /\ handled = 0
    /\ all_data = <<>>
    /\ count = ZeroCount
    /\ text = TextNone
    /\ filename = <<>>
    /\ folio = None
    /\ references = <<>>
    /\ findings = {}
    /\ llm = NoLlm("not_invoked")
    /\ posts = <<>>
    /\ df = <<>>
    /\ NoDesk

Init == Start(Batches)

Next == ProcessFile \/ AnalyzeFile \/ ExportFile

Spec == Init /\ [][Next]_vars

\* The batch with its scheduling.  run_processing is the body of a worker
\* thread and analyze_pdfs a generator that its caller drains: the for loop
\* takes one document after the other, no step waits for anything but an
\* oracle request, and that one has a timeout.  A step that can be taken is
\* therefore taken.  The conditions are stated on the control flow of the
\* loops: a step of Next that advances `handled` is a step of ProcessFile or
\* AnalyzeFile, one of which can be taken whenever a document is left, and a
\* step of Next that leaves the loop of analyze_pdfs is a step of ExportFile.
\* The batches are made of one document of each kind: one that cannot be
\* opened, one that stays encrypted, one without text, one whose folio is
\* not found (the oracle is asked) and one that is complete.
LiveDocs ==
    { Doc(NameNoFolio, "error", TextNone, <<>>),
      Doc(NameNoFolio, "encrypted", TextNone, <<>>),
      Doc(NameNoFolio, "ok", TextEmpty, <<>>),
      Doc(NameNoFolio, "ok",
          TextOf(<<Single(ESC, <<2, 0>>), Single(ESC, <<1, 0, 0>>)>>, <<>>),
          << <<ESC, <<2, 0>>>>, <<ESC, <<1, 0, 0>>>> >>),
      Doc(NameWithFolio, "ok",
          TextOf(<<Single(ESC, <<1, 0, 0>>)>>, <<FolioLabel(<<4, 2>>)>>),
          << <<ESC, <<1, 0, 0>>>> >>) }

LiveBatches == UNION { [1..n -> LiveDocs] : n \in 1..MaxDocs }

InitLive == Start(LiveBatches)

\* the for loop takes the next document
LoopAdvances ==
    /\ pc = "loop"
    /\ handled < Len(pdf_files)
    /\ handled' = handled + 1

\* the for loop of analyze_pdfs is left for the export
LoopEnds ==
    /\ pc = "loop"
    /\ variant = "oracle"
    /\ handled = Len(pdf_files)
    /\ pc' = "exported"

SpecLive ==
    /\ InitLive
    /\ [][Next]_vars
    /\ WF_handled(LoopAdvances)
    /\ WF_pc(LoopEnds)

\* ------------------------------------------------------------------------
\* Properties of the per-document pipelines (Spec)
\* ------------------------------------------------------------------------
\* the rows of the batch result that belong to document k
RowsOf(k) == SelectSeq(all_data, LAMBDA r : r.src = k)

\* C1: every document handed to the per-document pipeline (process_single_pdf
\* under run_processing, one loop iteration of analyze_pdfs) has at least one
\* row in the batch result, whatever the outcome of text recovery, of the
\* Folio, of the references and of the oracle.
C1_EveryDocumentHasRecord ==
    \A k \in 1..handled : RowsOf(k) # <<>>

\* C1 for run_processing / process_single_pdf alone.
C1_PatternVariantHasRecord ==
    variant = "pattern" => \A k \in 1..handled : RowsOf(k) # <<>>

\* the Folio value the pipeline resolved for the document at hand
ResolvedFolio ==
    IF variant = "pattern" THEN find_folio(text, invoice_type, filename)
    ELSE regex_folio_number(text)

\* the document at hand has text, no reference was found in it, and the
\* oracle was not invoked or returned None
NoReferenceNoOracle ==
    /\ handled >= 1
    /\ Truthy(text)
    /\ IF variant = "pattern" THEN references = <<>> ELSE findings = {}
    /\ llm.status \in {"not_invoked", "unavailable"}

\* C3: when a document has recovered text, its reference set is empty and the
\* oracle was not invoked or returned Unavailable, exactly one row is emitted
\* for it, with category 'N/A', number 'N/A' and the resolved Folio value
\* (the not-found marker included).
C3_ExactlyOneSentinel ==
    NoReferenceNoOracle =>
        RowsOf(handled) = <<Row(handled, "N/A", NA, ResolvedFolio)>>

\* oracle fail-soft: a document with text, no Folio and no reference, for
\* which the oracle returned None, got its one N/A row
C3_Witness ==
    /\ NoReferenceNoOracle
    /\ variant = "oracle"
    /\ llm.status = "unavailable"
    /\ RowsOf(handled) = <<Row(handled, "N/A", NA, Not_Found)>>

\* C11: the oracle is called for a document only when the pattern-derived
\* Folio is not found or the pattern-derived reference set is empty, and the
\* document text is non-empty; a document with a found Folio and at least one
\* reference, or with empty text, causes no oracle call.
C11_OracleOnlyWhenIncomplete ==
    llm.status # "not_invoked" =>
        /\ Truthy(text)
        /\ folio = Not_Found \/ findings = {}

\* the oracle was called for a document whose Folio the patterns found and
\* whose reference set is empty, and left alone for a complete document
C11_Witness ==
    /\ variant = "oracle"
    /\ handled = 2
    /\ llm.status = "not_invoked" /\ folio # Not_Found /\ findings # {}
    /\ count.llm_fallbacks = 1
    /\ regex_folio_number(pdf_files[1].text) # Not_Found
    /\ pdf_files[1].hits = <<>>

\* a JSON text that parses to an object when taken whole
ParsesToObject(b) == b.json \in {"object", "nested", "empty"}

\* the JSON object the oracle replied with for the document at hand
Supplied == posts[1].content[1].body

\* the oracle was asked for the document at hand and its reply was one JSON
\* object whose document_type is 'N/A', missing, null, empty or not one of
\* the four allowed tags
RepliedTypeNA ==
    /\ handled >= 1
    /\ posts # <<>>
    /\ posts[1].outcome = "content"
    /\ Len(posts[1].content) = 1
    /\ Supplied.json = "object"
    /\ Supplied.document_type \notin {ESC, ACTA, "Both"}

\* C13: after validation, an oracle response whose documentType is 'N/A'
\* (supplied as such, missing, null, empty, or coerced) has documentId 'N/A'
\* whatever id the oracle supplied, and the record emitted for the document
\* has number 'N/A'.
C13_TypeNAForcesIdNA ==
    RepliedTypeNA =>
        /\ llm.status = "ok"
        /\ llm.document_type = "N/A"
        /\ llm.document_id = NA
        /\ RowsOf(handled) # <<>>
        /\ \A k \in 1..Len(RowsOf(handled)) : RowsOf(handled)[k].Number = NA

\* the oracle supplied the id 8 with a type that is not allowed, and the
\* document got one row with number N/A
C13_Witness ==
    /\ RepliedTypeNA
    /\ Supplied.document_type = "escritura"
    /\ Supplied.document_id = <<8>>
    /\ Len(RowsOf(handled)) = 1
    /\ RowsOf(handled)[1].Number = NA

\* the oracle was asked for the document at hand and the request timed out,
\* could not connect, came back with a non-2xx status, without choices,
\* without a string content, with an empty one, or with one from which no
\* JSON can be recovered
OracleFailed ==
    /\ handled >= 1
    /\ posts # <<>>
    /\ \/ posts[1].outcome \in { "timeout", "connection_error", "request_error",
                                "http_error", "not_json", "no_choices",
                                "empty_choices", "content_not_str" }
       \/ /\ posts[1].outcome = "content"
          /\ \A i \in 1..Len(posts[1].content) :
                ~ParsesToObject(posts[1].content[i].body)

\* C14: query_llm_for_details never raises to its caller: each of these
\* failures yields Unavailable (None), and for such a document the caller
\* emits exactly the pattern-based records it would have emitted without the
\* oracle.
C14_FailSoft ==
    OracleFailed =>
        /\ llm.status = "unavailable"
        /\ RowsOf(handled) = regex_rows(handled, findings, folio)

\* the request of a document timed out and the document got its pattern rows
C14_Witness ==
    /\ OracleFailed
    /\ posts[1].outcome = "timeout"
    /\ llm.status = "unavailable"
    /\ findings # {}
    /\ Len(RowsOf(handled)) = Cardinality(findings)

\* the (category, number) pairs the patterns found in the document at hand
ReferencePairs ==
    IF variant = "pattern"
    THEN { <<references[k].Type, references[k].Number>> : k \in 1..Len(references) }
    ELSE findings

\* the document at hand has references, and the oracle was not invoked or
\* returned None
ReferencesNoOracle ==
    /\ handled >= 1
    /\ ReferencePairs # {}
    /\ llm.status \in {"not_invoked", "unavailable"}

\* C15: when the oracle was not invoked or returned Unavailable and the
\* reference set of the document is non-empty, the rows emitted for the
\* document correspond one-to-one to its references (same category and
\* number, none added, none dropped) and each carries the one
\* pattern-derived Folio value.
C15_OneRowPerReference ==
    ReferencesNoOracle =>
        LET rows == RowsOf(handled)
        IN  /\ Len(rows) = Cardinality(ReferencePairs)
            /\ { <<rows[k].Type, rows[k].Number>> : k \in 1..Len(rows) }
                   = ReferencePairs
            /\ \A k \in 1..Len(rows) : rows[k].Folio = ResolvedFolio

\* a document with two references for which the oracle returned None
C15_Witness ==
    /\ ReferencesNoOracle
    /\ variant = "oracle"
    /\ llm.status = "unavailable"
    /\ Cardinality(ReferencePairs) = 2
    /\ Len(RowsOf(handled)) = 2

\* C16: when the oracle returns a validated response, the Folio carried by
\* every row emitted for the document is the oracle's folio_number if it
\* differs from 'N/A', and the pattern-derived Folio otherwise.
C16_OracleFolioPreferred ==
    (handled >= 1 /\ llm.status = "ok") =>
        LET rows == RowsOf(handled)
        IN  /\ rows # <<>>
            /\ \A k \in 1..Len(rows) :
                  rows[k].Folio = IF llm.folio_number # NA THEN llm.folio_number
                                  ELSE ResolvedFolio

\* the patterns found the Folio 42, the oracle 55, and the row carries 55
C16_Witness ==
    /\ handled >= 1
    /\ llm.status = "ok"
    /\ ResolvedFolio = <<4, 2>>
    /\ llm.folio_number = <<5, 5>>
    /\ \E k \in 1..Len(RowsOf(handled)) : RowsOf(handled)[k].Folio = <<5, 5>>

\* the ids of a comma-separated group, in order
RECURSIVE IdsOf(_)
IdsOf(group) ==
    IF \A k \in 1..Len(group) : group[k] # 13 THEN <<group>>
    ELSE LET c == CHOOSE k \in 1..Len(group) :
                      group[k] = 13 /\ \A j \in 1..(k - 1) : group[j] # 13
         IN  <<SubSeq(group, 1, c - 1)>> \o IdsOf(SubSeq(group, c + 1, Len(group)))

\* the two groups of a documentId with the ';' separator
GroupBefore(id) ==
    SubSeq(id, 1, (CHOOSE k \in 1..Len(id) : id[k] = 12 /\ \A j \in 1..(k - 1) : id[j] # 12) - 1)
GroupAfter(id) ==
    SubSeq(id, (CHOOSE k \in 1..Len(id) : id[k] = 12 /\ \A j \in 1..(k - 1) : id[j] # 12) + 1,
           Len(id))

Present(group) == group # <<>> /\ group # NA

\* the oracle returned a validated response of type Both whose documentId
\* holds the ';' separator
BothWithSeparator ==
    /\ handled >= 1
    /\ llm.status = "ok"
    /\ llm.document_type = "Both"
    /\ \E k \in 1..Len(llm.document_id) : llm.document_id[k] = 12

\* the (category, number) pairs of the rows of the document at hand
RowPairs ==
    { <<RowsOf(handled)[k].Type, RowsOf(handled)[k].Number>> :
        k \in 1..Len(RowsOf(handled)) }

\* C17: for a validated response of type Both with the ';' separator, one
\* row is emitted per id for each category whose group is non-empty and not
\* 'N/A'; a category whose group is empty or 'N/A' gets no row; if both
\* groups are empty or 'N/A', exactly one row Both / N/A is emitted.
C17_OneRowPerId ==
    BothWithSeparator =>
        LET esc == GroupBefore(llm.document_id)
            act == GroupAfter(llm.document_id)
            esc_ids == IF Present(esc) THEN IdsOf(esc) ELSE <<>>
            act_ids == IF Present(act) THEN IdsOf(act) ELSE <<>>
            expected ==
                IF ~Present(esc) /\ ~Present(act) THEN { <<"Both", NA>> }
                ELSE { <<ESC, esc_ids[k]>> : k \in 1..Len(esc_ids) }
                     \cup { <<ACTA, act_ids[k]>> : k \in 1..Len(act_ids) }
        IN  /\ RowPairs = expected
            /\ Len(RowsOf(handled)) = Cardinality(expected)

\* C17 with one row per category, carrying the group as the oracle wrote it
C17_OneRowPerGroup ==
    BothWithSeparator =>
        LET esc == GroupBefore(llm.document_id)
            act == GroupAfter(llm.document_id)
            expected ==
                IF ~Present(esc) /\ ~Present(act) THEN { <<"Both", NA>> }
                ELSE (IF Present(esc) THEN { <<ESC, esc>> } ELSE {})
                     \cup (IF Present(act) THEN { <<ACTA, act>> } ELSE {})
        IN  /\ RowPairs = expected
            /\ Len(RowsOf(handled)) = Cardinality(expected)

\* the document at hand failed: no text could be recovered from it (the
\* file could not be opened or read, stayed encrypted, or has no text), its
\* step ended with an ERROR row, or its oracle request failed
DocumentFailed ==
    /\ handled >= 1
    /\ \/ ~Truthy(text)
       \/ \E k \in 1..Len(RowsOf(handled)) : RowsOf(handled)[k].Type = "ERROR"
       \/ OracleFailed

C20_AtMostOneRequest ==
    /\ Len(posts) <= 1
    /\ OracleFailed =>
          /\ Len(posts) = 1
          /\ pc \in {"loop", "exported"}
          /\ RowsOf(handled) # <<>>
          /\ \A k \in 1..Len(RowsOf(handled)) : RowsOf(handled)[k].Folio = folio

\* a request came back with a non-2xx status; it was the only one, and the
\* document has its rows
C20_Witness ==
    /\ OracleFailed
    /\ posts[1].outcome = "http_error"
    /\ Len(posts) = 1
    /\ RowsOf(handled) # <<>>

\* the (category, number) pairs that can be built from a validated response
FromResponse(r) ==
    IF r.document_type = "Both" /\ \E k \in 1..Len(r.document_id) : r.document_id[k] = 12
    THEN { <<ESC, GroupBefore(r.document_id)>>, <<ACTA, GroupAfter(r.document_id)>>,
           <<"Both", NA>> }
    ELSE IF r.document_type = "Both"
    THEN { <<"Both", NA>> }
    ELSE IF r.document_type \in {ESC, ACTA}
    THEN { <<r.document_type, r.document_id>> }
    ELSE { <<"N/A", NA>> }

\* C25: when the oracle returns a validated response for a document, the
\* records emitted for that document are built only from the response: the
\* (category, number) pairs the pattern rules found for the document are not
\* emitted, even when the oracle reports the type 'N/A'.
C25_OnlyOracleRows ==
    (handled >= 1 /\ llm.status = "ok") =>
        /\ RowsOf(handled) # <<>>
        /\ RowPairs \subseteq FromResponse(llm)
        /\ llm.document_type = "N/A" => RowPairs = { <<"N/A", NA>> }

\* the pattern rules found references in a document, the oracle was asked
\* for its folio and answered with the type 'N/A'
C25_Witness ==
    /\ handled >= 1
    /\ llm.status = "ok"
    /\ llm.document_type = "N/A"
    /\ findings # {}
    /\ RowPairs = { <<"N/A", NA>> }

\* the documents handled so far that have an ERROR-tagged row
Degraded ==
    { k \in 1..handled : \E i \in 1..Len(RowsOf(k)) : RowsOf(k)[i].Type = "ERROR" }

Written(k) == SelectSeq(df, LAMBDA r : r.src = k)

\* the place of a number in the Reference Extractor's ordering rule: by
\* numeric value, a number that is not numeric after every numeric one
NumberKey(n) == IF isdigit(n) THEN <<0, ToInt(n)>> ELSE <<1, 0>>

\* r1 does not come after r2 by (category, numeric value)
NotAfter(r1, r2) ==
    \/ ColumnTypeRank(r1.Type) < ColumnTypeRank(r2.Type)
    \/ /\ r1.Type = r2.Type
       /\ \/ NumberKey(r1.Number)[1] < NumberKey(r2.Number)[1]
          \/ /\ NumberKey(r1.Number)[1] = NumberKey(r2.Number)[1]
             /\ NumberKey(r1.Number)[2] <= NumberKey(r2.Number)[2]

\* no two written rows of a document have the same (category, number)
UniquePerDocument ==
    \A d \in 1..Len(pdf_files) :
        \A i, j \in 1..Len(Written(d)) :
            i < j => <<Written(d)[i].Type, Written(d)[i].Number>>
                       # <<Written(d)[j].Type, Written(d)[j].Number>>

\* C18: in the table analyze_pdfs writes, no two rows of the same document
\* have the same (category, number), and the rows of each document are
\* ordered by category, then by numeric value ascending ('2' before '10'),
\* numbers that are not numeric last.
C18_UniqueAndOrdered ==
    pc = "exported" =>
        /\ UniquePerDocument
        /\ \A d \in 1..Len(pdf_files) :
              \A i, j \in 1..Len(Written(d)) :
                  i < j => NotAfter(Written(d)[i], Written(d)[j])

\* C18 with the order the code applies: by category, then by the number
\* compared as a string ('10' before '2')
C18_UniqueAndStringOrdered ==
    pc = "exported" =>
        /\ UniquePerDocument
        /\ \A d \in 1..Len(pdf_files) :
              \A i, j \in 1..Len(Written(d)) :
                  i < j =>
                      \/ ColumnTypeRank(Written(d)[i].Type)
                            < ColumnTypeRank(Written(d)[j].Type)
                      \/ /\ Written(d)[i].Type = Written(d)[j].Type
                         /\ CellLess(Written(d)[i].Number, Written(d)[j].Number)

\* a table with two rows of one document and one category was written
C18_TwoRowsWritten ==
    /\ pc = "exported"
    /\ \E d \in 1..Len(pdf_files) :
          \E i, j \in 1..Len(Written(d)) :
              i < j /\ Written(d)[i].Type = Written(d)[j].Type

\* ------------------------------------------------------------------------
\* Properties of query_llm_for_details (SpecLlm)
\* ------------------------------------------------------------------------
\* the oracle was asked and answered with a non-empty string
Replied ==
    /\ pc = "done"
    /\ posts # <<>>
    /\ posts[1].outcome = "content"
    /\ posts[1].content # <<>>

\* attempt (a): the whole reply parsed
AttemptWhole(content) ==
    IF Len(content) = 1 /\ content[1].kind = "bare" /\ ParsesToObject(content[1].body)
    THEN content[1].body ELSE NoJson

\* attempt (b): the contents of the first fenced json block parsed
AttemptFence(content) ==
    LET fences == { i \in 1..Len(content) : content[i].kind = "fence" }
        k == CHOOSE i \in fences : \A j \in fences : i <= j
    IN  IF fences # {} /\ ParsesToObject(content[k].body) THEN content[k].body
        ELSE NoJson

\* attempt (c): the first balanced {...} span of the reply parsed
AttemptSpan(content) ==
    LET spans == { i \in 1..Len(content) :
                     content[i].body.json \in {"object", "nested", "empty", "bad"} }
        k == CHOOSE i \in spans : \A j \in spans : i <= j
    IN  IF spans # {} /\ ParsesToObject(content[k].body) THEN content[k].body
        ELSE NoJson

\* the attempts in order, up to the first that yields a parsed object
Recovered(content) ==
    IF AttemptWhole(content) # NoJson THEN AttemptWhole(content)
    ELSE IF AttemptFence(content) # NoJson THEN AttemptFence(content)
    ELSE AttemptSpan(content)

\* C12: recovery of the reply tries (a) the whole reply, (b) the contents of a
\* fenced json block, (c) the first balanced {...} span, in this order, and
\* stops at the first attempt that yields a parsed object; the result is
\* Unavailable only when all three fail, and a failed (b) does not prevent (c).
\* (What becomes of a recovered '{}' is left open here.)
C12_LayeredRecovery ==
    Replied =>
        LET r == Recovered(posts[1].content)
        IN  /\ r.json \in {"object", "nested"} => llm = validated_data(r)
            /\ r = NoJson => llm.status = "unavailable"

\* C12 for the replies in which the text the code picks for its second parse
\* is the text the layered recovery would end with: no fenced block whose
\* contents fail to parse, no nested object outside a fenced block unless it
\* is the whole reply.
C12_RecoveryWithoutBadFenceOrNesting ==
    ( /\ Replied
      /\ \A i \in 1..Len(posts[1].content) :
            LET p == posts[1].content[i]
            IN  /\ ~(p.kind = "fence" /\ p.body.json = "bad")
                /\ p.kind = "bare" /\ p.body.json = "nested"
                       => Len(posts[1].content) = 1 )
    => LET r == Recovered(posts[1].content)
       IN  /\ r.json \in {"object", "nested"} => llm = validated_data(r)
           /\ r = NoJson => llm.status = "unavailable"

\* the reply is one JSON object and nothing else
RepliedObject ==
    /\ Replied
    /\ Len(posts[1].content) = 1
    /\ posts[1].content[1].kind = "bare"
    /\ posts[1].content[1].body.json \in {"object", "empty"}

\* the result has N/A for every field the object lacks or has null or empty
MissingFieldsNA(body) ==
    /\ llm.status = "ok"
    /\ body.folio_number \in {Null, <<>>} => llm.folio_number = NA
    /\ body.document_type \in {NullType, ""} => llm.document_type = "N/A"
    /\ body.document_id \in {Null, <<>>} => llm.document_id = NA

\* C21: a reply that parses as a JSON object but lacks required fields, or
\* has them null or empty (the empty object {} included), is normalised to a
\* response whose missing fields are 'N/A'; it is not turned into Unavailable.
C21_MissingFieldsNormalised ==
    RepliedObject => MissingFieldsNA(posts[1].content[1].body)

\* C21 for the objects that have a key
C21_NonEmptyObjectNormalised ==
    (RepliedObject /\ posts[1].content[1].body.json = "object")
        => MissingFieldsNA(posts[1].content[1].body)

\* C26: every result of query_llm_for_details other than Unavailable has
\* exactly the three fields folio_number, document_type and document_id, each
\* a non-empty string, with document_type one of 'Escritura', 'Acta Fuera de
\* Protocolo', 'Both', 'N/A' (matched case-sensitively; any other value is
\* coerced to 'N/A'); a document_type other than 'N/A' with document_id 'N/A'
\* is accepted as is.
C26_ValidatedShape ==
    (pc = "done" /\ llm.status = "ok") =>
        /\ DOMAIN llm = {"status", "folio_number", "document_type", "document_id"}
        /\ llm.folio_number \notin {<<>>, Null}
        /\ llm.document_id \notin {<<>>, Null}
        /\ llm.document_type \in {ESC, ACTA, "Both", "N/A"}
        /\ RepliedObject =>
              LET body == posts[1].content[1].body
              IN  /\ body.document_type \notin {ESC, ACTA, "Both"}
                       => llm.document_type = "N/A"
                  /\ body.document_type \in {ESC, ACTA, "Both"}
                       => /\ llm.document_type = body.document_type
                          /\ body.document_id \in {Null, <<>>, NA}
                               => llm.document_id = NA

\* a reply with the type written 'escritura' was validated with type 'N/A',
\* and one with the type 'Escritura' and no id kept its type
C26_Witness ==
    /\ pc = "done"
    /\ llm.status = "ok"
    /\ RepliedObject
    /\ \/ posts[1].content[1].body.document_type = "escritura"
       \/ /\ posts[1].content[1].body.document_type = ESC
          /\ posts[1].content[1].body.document_id = Null

\* ------------------------------------------------------------------------
\* Properties of the Reference Extractor (SpecRef)
\* ------------------------------------------------------------------------
\* the constructs the text is made of
ConstructsOf(t) == { t.refs[i] : i \in 1..Len(t.refs) }

\* the records returned, as a set
Returned == { references[i] : i \in 1..Len(references) }

Record(cat, num_str) == [Type |-> cat, Number |-> num_str]

Remove(seq, i) == SubSeq(seq, 1, i - 1) \o SubSeq(seq, i + 1, Len(seq))

\* every numeric segment of every compound construct of the text was
\* returned as a record of the category of its label
EverySegmentReturned ==
    \A c \in ConstructsOf(text) :
        c.kind = "special" =>
            \A i \in 1..Len(c.nums) : Record(c.cat, c.nums[i]) \in Returned

\* C22: when the compound rule matches a label followed by slash-delimited
\* numeric segments, every numeric segment of the match is added as a record
\* of the category of the label, in each reference finder that applies the
\* rule (find_references_dba, find_references_totalnot,
\* find_references_contpaq).
C22_EverySegment ==
    (pc = "done" /\ Truthy(text)) => EverySegmentReturned

\* C22 for find_references_dba alone
C22_EverySegmentDba ==
    (pc = "done" /\ Truthy(text) /\ invoice_type = "DBA") => EverySegmentReturned

\* the number strings a range, list or compound construct claims
ClaimedBy(c) ==
    CASE c.kind \in {"range", "rangeAL"} ->
            { ToStr(k) : k \in ToInt(c.nums[1])..ToInt(c.nums[2]) }
      [] c.kind \in {"list", "special"} -> { c.nums[i] : i \in 1..Len(c.nums) }
      [] OTHER -> {}

\* the number strings claimed for a category by the range, list and compound
\* constructs of the text
ClaimedStrings(cat) ==
    UNION { ClaimedBy(c) : c \in { d \in ConstructsOf(text) : d.cat = cat } }

ClaimedValues(cat) == { ToInt(n) : n \in ClaimedStrings(cat) }

\* C23: a single-rule match is skipped whenever its number was already
\* claimed for that category by a range, list or compound rule, the claim
\* check comparing numeric values: a single mention written '08' is skipped
\* once a range has claimed 8.
C23_NumericClaimCheck ==
    (pc = "done" /\ Truthy(text)) =>
        \A c \in ConstructsOf(text) :
            ( /\ c.kind = "single"
              /\ ToInt(c.nums[1]) \in ClaimedValues(c.cat)
              /\ c.nums[1] \notin ClaimedStrings(c.cat) )
            => Record(c.cat, c.nums[1]) \notin Returned

\* C23 with the claim check on the number as written: a single mention
\* written as the claiming rule wrote the number is not added a second time
C23_StringClaimCheck ==
    (pc = "done" /\ Truthy(text)) =>
        \A c \in ConstructsOf(text) :
            (c.kind = "single" /\ c.nums[1] \in ClaimedStrings(c.cat))
            => Cardinality({ i \in 1..Len(references) :
                               references[i] = Record(c.cat, c.nums[1]) }) = 1

\* C2: in the list a reference finder returns, no two records have the same
\* (Type, Number) pair, whatever the text and however many range, list,
\* compound and single matches rediscover the same number.
C2_UniquePairs ==
    pc = "done" =>
        \A i, j \in 1..Len(references) :
            i # j => <<references[i].Type, references[i].Number>>
                         # <<references[j].Type, references[j].Number>>

\* a range 8 A 10 and, elsewhere, a single 8 of the same category: the number
\* 8 is found by two rules and returned
C2_Witness ==
    /\ pc = "done"
    /\ \E cat \in Categories :
           /\ Range(cat, <<8>>, <<1, 0>>) \in ConstructsOf(text)
           /\ Single(cat, <<8>>) \in ConstructsOf(text)
           /\ Record(cat, <<8>>) \in Returned

\* C4: for a text made of a range construct x A y (x <= y) and a single
\* mention of a number n with x <= n <= y for the same category, the finder
\* returns every integer of x..y exactly once for that category and nothing
\* else.
C4_RangeAndSingle ==
    pc = "done" =>
        \A cat \in Categories, x \in Canon, y \in Canon, n \in Numerals :
            ( /\ ToInt(x) <= ToInt(y)
              /\ ToInt(n) \in ToInt(x)..ToInt(y)
              /\ ConstructsOf(text) = {Range(cat, x, y), Single(cat, n)} )
            => /\ Returned = { Record(cat, ToStr(k)) : k \in ToInt(x)..ToInt(y) }
               /\ Len(references) = ToInt(y) - ToInt(x) + 1

\* C4, the single mention written as the range expansion writes the number
\* (no leading zero): then the range and the single give x..y once each.
C4_RangeAndSameSpelling ==
    pc = "done" =>
        \A cat \in Categories, x \in Canon, y \in Canon, n \in Canon :
            ( /\ ToInt(x) <= ToInt(y)
              /\ ToInt(n) \in ToInt(x)..ToInt(y)
              /\ ConstructsOf(text) = {Range(cat, x, y), Single(cat, n)} )
            => /\ Returned = { Record(cat, ToStr(k)) : k \in ToInt(x)..ToInt(y) }
               /\ Len(references) = ToInt(y) - ToInt(x) + 1

\* C5: for a text made of a list construct a Y b and a single mention of a
\* (written as in the list) for the same category, the finder returns exactly
\* the records a and b of that category: the single rule does not add a a
\* second time.
C5_ListAndSingle ==
    pc = "done" =>
        \A cat \in Categories, a \in Numerals, b \in Canon :
            ConstructsOf(text) = {List(cat, a, b), Single(cat, a)}
            => /\ Returned = {Record(cat, a), Record(cat, b)}
               /\ Len(references) = Cardinality({a, b})

\* the list 8 Y 10 and the single 8 gave two records
C5_Witness ==
    /\ pc = "done"
    /\ \E cat \in Categories :
           /\ ConstructsOf(text) = {List(cat, <<8>>, <<1, 0>>), Single(cat, <<8>>)}
           /\ Len(references) = 2

\* a range construct whose end is smaller than its start
InvalidRange(c) ==
    /\ c.kind \in {"range", "rangeAL"}
    /\ ToInt(c.nums[2]) < ToInt(c.nums[1])

\* C6: a range construct x A y (or x AL y) with y < x contributes no record,
\* by the range rule or by any rule applied after it, and the other matches
\* of the text are processed as if it were not there: the finder returns what
\* it returns for the text without that construct.
C6_InvalidRangeContributesNothing ==
    pc = "done" =>
        \A i \in 1..Len(text.refs) :
            InvalidRange(text.refs[i])
            => references = find_references(invoice_type,
                                            TextOf(Remove(text.refs, i), text.fol))

\* C6 for the range rule alone: the records of an invalid range's category
\* never include a number strictly between its end and its start.
C6_NoExpansion ==
    pc = "done" =>
        \A cat \in Categories :
            ConstructsOf(text) = {Range(cat, <<1, 0>>, <<8>>)}
            => Record(cat, <<9>>) \notin Returned

\* ------------------------------------------------------------------------
\* Properties of the Folio Resolver (SpecFolio)
\* ------------------------------------------------------------------------
\* the classification by length alone, with the resolver's own marker for
\* "nothing found"
Classify(candidate, not_found) ==
    IF candidate = None THEN not_found
    ELSE IF Len(candidate) > 20 THEN FOLIO_FISCAL_SUSPECTED
    ELSE candidate

\* the candidate the Folio step of analyze_pdfs comes upon first: the match
\* of the first of FOLIO_PATTERNS that matches at all
FirstPatternMatch(t) ==
    LET matches == FOLIO_PATTERNS(t)
        hits == { i \in 1..Len(matches) : matches[i] # None }
    IN  IF hits = {} THEN None
        ELSE matches[CHOOSE i \in hits : \A j \in hits : i <= j]

\* C7: the Folio Resolver classifies the candidate it selected by length
\* only: longer than 20 characters gives FOLIO_FISCAL_SUSPECTED, 1 to 20
\* characters gives the candidate unchanged, no candidate gives the
\* not-found marker; in find_folio and in the Folio step of analyze_pdfs.
C7_ClassifiedByLength ==
    pc = "done" =>
        /\ variant = "logic" =>
               folio = Classify(IF ~Truthy(text) /\ invoice_type # "DBA" THEN None
                                ELSE folio_candidate(text, invoice_type, filename),
                                NOT_FOUND)
        /\ variant = "oracle" =>
               folio = Classify(FirstPatternMatch(text), Not_Found)

\* C7 for find_folio of Moldularversion/logic.py alone.
C7_FindFolioByLength ==
    pc = "done" /\ variant = "logic" =>
        /\ folio = Classify(IF ~Truthy(text) /\ invoice_type # "DBA" THEN None
                            ELSE folio_candidate(text, invoice_type, filename),
                            NOT_FOUND)
        /\ \/ folio \in {NOT_FOUND, FOLIO_FISCAL_SUSPECTED}
           \/ Len(folio) \in 1..20

\* the 'FOLIO:' matches whose 30 characters before the match start do not
\* hold the phrase "Folio fiscal"
Unpreceded(t) ==
    LET matches == contpaq_matches(t.fol, 1)
    IN  { k \in 1..Len(matches) : ~PrecededByFiscal(t.fol, matches[k].start, 30) }

LastUnpreceded(t) ==
    LET matches == contpaq_matches(t.fol, 1)
    IN  IF Unpreceded(t) = {} THEN None
        ELSE matches[CHOOSE k \in Unpreceded(t) :
                         \A j \in Unpreceded(t) : j <= k].group1

\* C8: for CONTPAQ the candidate chosen is the last 'FOLIO:' match whose 30
\* characters of lookback do not contain 'Folio fiscal'; a match whose window
\* contains the phrase is rejected, and if all are rejected there is no
\* candidate; in find_folio of Moldularversion/logic.py and of
\* FunctionalityStable.py (which returns None where the other returns a
\* marker).
C8_LastUnprecededWins ==
    pc = "done" /\ invoice_type = "CONTPAQ" /\ Truthy(text) =>
        /\ variant = "logic" => folio = final_checks(LastUnpreceded(text))
        /\ variant = "stable" =>
               folio = IF LastUnpreceded(text) # None /\ Len(LastUnpreceded(text)) > 20
                       THEN None ELSE LastUnpreceded(text)

\* C8 for find_folio of Moldularversion/logic.py alone.
C8_FindFolioLastWins ==
    pc = "done" /\ invoice_type = "CONTPAQ" /\ Truthy(text) /\ variant = "logic" =>
        folio = final_checks(LastUnpreceded(text))

\* C29: in the CONTPAQ Folio rule of find_folio the length check is applied
\* only to the selected candidate (the last match not preceded by 'Folio
\* fiscal'): when that candidate is longer than 20 characters the result is
\* FOLIO_FISCAL_SUSPECTED even if an earlier accepted match of 20 characters
\* or fewer exists in the text; there is no fallback to the earlier match.
C29_NoFallback ==
    ( /\ pc = "done" /\ variant = "logic" /\ invoice_type = "CONTPAQ"
      /\ Truthy(text)
      /\ Len(LastUnpreceded(text)) > 20 )
    => folio = FOLIO_FISCAL_SUSPECTED

\* the last accepted match is longer than 20 characters, an earlier accepted
\* one is not, and the result is the suspected marker
C29_Witness ==
    /\ pc = "done" /\ variant = "logic" /\ invoice_type = "CONTPAQ"
    /\ Truthy(text)
    /\ Len(LastUnpreceded(text)) > 20
    /\ \E k \in Unpreceded(text) :
          Len(contpaq_matches(text.fol, 1)[k].group1) <= 20
    /\ folio = FOLIO_FISCAL_SUSPECTED

\* the parts of a filename that are a run of 1 to 5 digits with an underscore
\* on both sides
DelimitedRuns(name) ==
    { i \in 2..(Len(name) - 1) : isdigit(name[i]) /\ Len(name[i]) <= 5 }

\* C9: for DBA the number embedded in the filename is tried before any text
\* pattern: when the filename holds an underscore-delimited run of 1 to 5
\* digits the Folio is that number (the first such run), whatever the text
\* holds and also when the text is absent; when the text is absent and the
\* filename rule does not apply (no such run, or another document type) the
\* result is NOT_FOUND.
C9_FilenameFirst ==
    pc = "done" /\ variant = "logic" =>
        /\ invoice_type = "DBA" /\ DelimitedRuns(filename) # {} =>
               folio = filename[CHOOSE i \in DelimitedRuns(filename) :
                                    \A j \in DelimitedRuns(filename) : i <= j]
        /\ ~Truthy(text) /\ (invoice_type # "DBA" \/ DelimitedRuns(filename) = {}) =>
               folio = NOT_FOUND

\* a DBA document "A_123_A.pdf" whose text is absent resolved to 123, and one
\* whose text carries another Folio did too
C9_Witness ==
    /\ pc = "done"
    /\ variant = "logic"
    /\ invoice_type = "DBA"
    /\ filename = << <<10>>, <<1, 2, 3>>, <<10>> >>
    /\ \/ ~Truthy(text)
       \/ REGEX_FOLIO_DBA(text) = <<4, 2>>
    /\ folio = <<1, 2, 3>>

\* ------------------------------------------------------------------------
\* Properties of the ordering (SpecRef)
\* ------------------------------------------------------------------------
\* the full key of the ordering: category, numeric value, original string
FullKeyLeq(r1, r2) ==
    \/ TypeRank(r1.Type) < TypeRank(r2.Type)
    \/ /\ r1.Type = r2.Type
       /\ \/ ToInt(r1.Number) < ToInt(r2.Number)
          \/ /\ ToInt(r1.Number) = ToInt(r2.Number)
             /\ (r1.Number = r2.Number \/ StrLess(r1.Number, r2.Number))

\* C10: the records a finder returns are ordered by (category, numeric value
\* ascending, original number string as tiebreak): two numbers of equal
\* numeric value come out in string order whatever rule found them first.
C10_FullOrder ==
    pc = "done" =>
        \A i, j \in 1..Len(references) :
            i < j => FullKeyLeq(references[i], references[j])

\* C10 without the tiebreak: the records are ordered by (category, numeric
\* value), which is the key sort_key computes.
C10_KeyOrder ==
    pc = "done" =>
        \A i, j \in 1..Len(references) :
            i < j => ~KeyLess(sort_key(references[j]), sort_key(references[i]))

\* ------------------------------------------------------------------------
\* The desktop application (Moldularversion/gui.py): the result table
\* ------------------------------------------------------------------------
MaxRows == 2

\* The tree has the columns "Source PDF", "Invoice Folio", "Document Type" and
\* "Reference Number".  Two of them are carried here: "Source PDF", which
\* cannot be edited and holds no number, and "Reference Number", which can be
\* edited and is sorted as a number when it holds one.  The handlers take
\* "Invoice Folio" and "Document Type" through the statements they take
\* "Reference Number" through.
Columns == {"Source PDF", "Reference Number"}
editable_columns == {"Reference Number"}

\* a row of a frame: its index label and its cells
Labelled(i, r) == [index |-> i, data |-> r]

\* pd.DataFrame(list of dicts) and reset_index(drop=True): the labels 0..n-1
RangeIndex(rs) == [k \in 1..Len(rs) |-> Labelled(k - 1, rs[k])]
reset_index(rows) == [k \in 1..Len(rows) |-> Labelled(k - 1, rows[k].data)]

index(frame) == { frame.rows[k].index : k \in 1..Len(frame.rows) }
is_unique(frame) ==
    \A i, j \in 1..Len(frame.rows) : frame.rows[i].index = frame.rows[j].index => i = j
empty(frame) == frame.rows = <<>>

\* a handler that leaves the Entry alone
_keep_cell_edit(a) == a

\* _cancel_cell_edit: the Entry is destroyed
_cancel_cell_edit(a) ==
    IF a._edit_entry
    THEN [a EXCEPT !._edit_entry = FALSE, !._edit_item_id = <<>>,
                   !._edit_column_id = "None"]
    ELSE a

\* clear_treeview
clear_treeview(a) ==
    [_cancel_cell_edit(a) EXCEPT
        !.tree = <<>>, !.dataframe = NoFrame, !.current_excel_file = "None",
        !._df_index_map = {}, !._clipboard = <<>>,
        !._tree_current_sort_col = "None", !._tree_current_sort_ascending = TRUE]

\* set_data_and_file
set_data_and_file(a, frame, excel_file_path) ==
    [a EXCEPT !.dataframe = frame, !.current_excel_file = excel_file_path,
              !._clipboard = <<>>]

\* d[k] = v on a dict held as the set of its pairs
SetItem(d, k, v) == { p \in d : p[1] # k } \cup { <<k, v>> }
Keys(d) == { p[1] : p \in d }
Get(d, k) == { p[2] : p \in { q \in d : q[1] = k } }

\* the items of a tree
item(iid, values) == [iid |-> iid, values |-> values]
get_children(a) == { a.tree[k].iid : k \in 1..Len(a.tree) }

\* the loop "for df_index, row in self.dataframe.iterrows()" of
\* load_data_to_treeview from row k on: the item id is str(df_index);
\* tree.insert raises TclError for an id the tree has already, and the except
\* clause leaves that row out of the tree and of the map
RECURSIVE populate(_, _, _)
populate(a, rows, k) ==
    IF k > Len(rows) THEN a
    ELSE LET df_index == rows[k].index
             item_id == ToStr(df_index)
         IN  IF item_id \in get_children(a)
             THEN populate(a, rows, k + 1)
             ELSE populate([a EXCEPT
                               !.tree = Append(a.tree, item(item_id, rows[k].data)),
                               !._df_index_map = SetItem(a._df_index_map, item_id, df_index)],
                           rows, k + 1)

\* load_data_to_treeview.  The frames of this application have every column
\* of the tree and "Full PDF Path" (run_processing builds them with
\* all_columns_ordered, and no handler removes a column), so that the branch
\* for missing columns is not taken.
load_data_to_treeview(a) ==
    LET a1 == [_cancel_cell_edit(a) EXCEPT !.tree = <<>>, !._df_index_map = {}]
    IN  IF a1.dataframe.is_none \/ empty(a1.dataframe) THEN a1
        ELSE LET a2 == IF is_unique(a1.dataframe) THEN a1
                       ELSE [a1 EXCEPT !.dataframe.rows = reset_index(@)]
             IN  populate(a2, a2.dataframe.rows, 1)

\* pd.to_numeric(column, errors='coerce') on one cell; NaN is -1.  A file
\* name is no number.
NaN == -1
to_numeric(col, r) ==
    IF col = "Reference Number" /\ isdigit(r.Number) THEN ToInt(r.Number) ELSE NaN

\* the place of str(s).lower() among the strings a column holds, in string
\* order.  The documents are named "1.pdf", "2.pdf", ... (src), and the row
\* _add_row makes is named "[MANUALLY ADDED]" (src 0), which comes after
\* every digit.
lower_rank(col, r) ==
    IF col = "Source PDF"
    THEN (IF r.src = 0 THEN 3 ELSE r.src)
    ELSE (CASE r.Number = <<>> -> 0
            [] r.Number = ERROR -> 1
            [] r.Number = NOT_FOUND -> 2
            [] r.Number = Returned_Nothing -> 3
            [] OTHER -> 4)

\* the sort key of a row in sort_treeview_column
column_key(col, r, sort_numerically) ==
    IF sort_numerically THEN to_numeric(col, r) ELSE lower_rank(col, r)

\* x goes before y: by key in the direction asked for, NaN last either way
GoesBefore(kx, ky, ascending, sort_numerically) ==
    IF sort_numerically /\ (kx = NaN \/ ky = NaN) THEN kx # NaN /\ ky = NaN
    ELSE IF ascending THEN kx < ky ELSE kx > ky

\* DataFrame.sort_values on one column: rows of equal key keep their order
\* (the frames are shorter than the 16 rows from which numpy's quicksort
\* stops being an insertion sort)
RECURSIVE sort_column(_, _, _, _)
sort_column(rows, col, ascending, sort_numerically) ==
    IF rows = <<>> THEN <<>>
    ELSE LET x == Head(rows)
             kx == column_key(col, x.data, sort_numerically)
             rest == sort_column(Tail(rows), col, ascending, sort_numerically)
             first == { k \in 1..Len(rest) :
                          ~GoesBefore(column_key(col, rest[k].data, sort_numerically),
                                      kx, ascending, sort_numerically) }
             cut == IF first = {} THEN Len(rest) + 1
                    ELSE CHOOSE k \in first : \A j \in first : k <= j
         IN  SubSeq(rest, 1, cut - 1) \o <<x>> \o SubSeq(rest, cut, Len(rest))

\* sort_treeview_column after its guards
sorted_by(a, col) ==
    LET sort_ascending == IF a._tree_current_sort_col = col
                          THEN ~a._tree_current_sort_ascending ELSE TRUE
        rows == a.dataframe.rows
        sort_numerically == \E k \in 1..Len(rows) : to_numeric(col, rows[k].data) # NaN
        sorted_df == DataFrame(sort_column(rows, col, sort_ascending, sort_numerically))
    IN  load_data_to_treeview(
            [_cancel_cell_edit(a) EXCEPT
                !.dataframe = sorted_df,
                !._tree_current_sort_col = col,
                !._tree_current_sort_ascending = sort_ascending])

\* ------------------------------------------------------------------------
\* The desktop application: a batch from start_processing to enable_buttons
\* ------------------------------------------------------------------------
MaxBatches == 2

\* disable_buttons and enable_buttons
disable_buttons(a) == _cancel_cell_edit([a EXCEPT !.processing_active = TRUE])
enable_buttons(a) == [a EXCEPT !.processing_active = FALSE]

\* master_gui.after(ms, func, *args) as called by a batch; the frame and the
\* file are the arguments of set_data_and_file
Call(ms, func) == [ms |-> ms, func |-> func, df |-> NoFrame, file |-> "None"]
CallSet(ms, frame, file) ==
    [ms |-> ms, func |-> "set_data_and_file", df |-> frame, file |-> file]

\* the calls of after() run_processing makes on each of its ways out, in
\* program order
ExitPaths == {"scan_error", "no_pdf", "no_data", "df_error",
              "saved", "permission_error", "save_error"}

\* a way out that schedules enable_buttons ahead of the frame
exit_calls_enable_first(path, frame) ==
    << Call(0, "update_status"), Call(0, "enable_buttons"),
       CallSet(0, frame, "Extracted_Invoices.xlsx"),
       Call(10, "load_data_to_treeview"), Call(30, "clear_pdf_preview") >>

exit_calls(path, frame) ==
    CASE path = "scan_error" ->
            << Call(0, "update_status"), Call(0, "showerror"),
               Call(0, "enable_buttons"), Call(10, "clear_pdf_preview") >>
      [] path = "no_pdf" ->
            << Call(0, "update_status"), Call(0, "enable_buttons"),
               Call(0, "showinfo"), Call(10, "clear_pdf_preview") >>
      [] path = "no_data" ->
            << Call(0, "update_status"), Call(0, "enable_buttons"),
               Call(0, "showwarning"), Call(10, "clear_pdf_preview") >>
      [] path = "df_error" ->
            << Call(0, "update_status"), Call(0, "showerror"),
               Call(0, "enable_buttons"), Call(10, "clear_pdf_preview") >>
      [] path = "saved" ->
            << Call(0, "update_status"),
               CallSet(0, frame, "Extracted_Invoices.xlsx"),
               Call(10, "load_data_to_treeview"), Call(20, "showinfo"),
               Call(30, "clear_pdf_preview"), Call(40, "enable_buttons") >>
      [] OTHER ->
            << Call(0, "update_status"), Call(0, "showerror"),
               CallSet(10, frame, "None"),
               Call(20, "load_data_to_treeview"),
               Call(30, "clear_pdf_preview"), Call(40, "enable_buttons") >>

\* Tk keeps its timer handlers in the order of their expiry and puts a new
\* one behind those that expire no later: the place of a call that has ms
\* left among the timers
RECURSIVE place(_, _)
place(q, ms) ==
    IF q = <<>> \/ Head(q).ms > ms THEN 1 ELSE 1 + place(Tail(q), ms)

after(q, call, b) ==
    LET k == place(q, call.ms)
        e == [ms |-> call.ms, func |-> call.func, df |-> call.df,
              file |-> call.file, batch |-> b]
    IN  SubSeq(q, 1, k - 1) \o <<e>> \o SubSeq(q, k, Len(q))

\* 10 ms pass
elapse(q) ==
    [k \in 1..Len(q) |-> [q[k] EXCEPT !.ms = IF @ >= 10 THEN @ - 10 ELSE 0]]

\* what process_single_pdf and the except clause around it add to all_data
\* for the document named src: document 1 has one reference, "10", and
\* document 2 cannot be read (an ERROR row)
FileResults(src) ==
    IF src = 1 THEN << Row(src, ESC, <<1, 0>>, <<4, 2>>) >>
    ELSE << Row(src, "ERROR", Returned_Nothing, ERROR) >>

\* the lists of files os.walk gives for the folders of the model: an empty
\* folder, a folder with one document, and a folder whose two documents are
\* found in the reverse order of their names
Folders == { <<>>, <<1>>, <<2, 1>> }

\* row order of df.sort_values(by=["Source PDF", "Document Type",
\* "Reference Number Num", "Reference Number"], na_position='last')
TypeOrder(t) ==
    CASE t = ACTA -> 0
      [] t = "ERROR" -> 1
      [] t = ESC -> 2
      [] OTHER -> 3

FrameLess(r1, r2) ==
    \/ r1.src < r2.src
    \/ r1.src = r2.src /\ TypeOrder(r1.Type) < TypeOrder(r2.Type)
    \/ r1.src = r2.src /\ r1.Type = r2.Type
          /\ GoesBefore(to_numeric("Reference Number", r1),
                        to_numeric("Reference Number", r2), TRUE, TRUE)
    \/ r1.src = r2.src /\ r1.Type = r2.Type
          /\ to_numeric("Reference Number", r1) = to_numeric("Reference Number", r2)
          /\ CellLess(r1.Number, r2.Number)

RECURSIVE sort_frame(_)
sort_frame(rows) ==
    IF rows = <<>> THEN <<>>
    ELSE LET x == Head(rows)
             rest == sort_frame(Tail(rows))
             first == { k \in 1..Len(rest) : ~FrameLess(rest[k].data, x.data) }
             cut == IF first = {} THEN Len(rest) + 1
                    ELSE CHOOSE k \in first : \A j \in first : k <= j
         IN  SubSeq(rest, 1, cut - 1) \o <<x>> \o SubSeq(rest, cut, Len(rest))

\* df of run_processing: pd.DataFrame(all_data) sorted in place, every row
\* keeping the label it was given
frame_of(data) == DataFrame(sort_frame(RangeIndex(data)))

\* a thread running run_processing for batch b, before its first statement
Thread(b) == [batch |-> b, pc |-> "scan", pdf_files |-> <<>>, all_data |-> <<>>,
              todo |-> <<>>]

\* select_folder, with what the user answers to askokcancel and askdirectory
select_folder ==
    /\ \E proceed \in BOOLEAN, folder \in {"", "folder"} :
          IF app.processing_active
          THEN app' = app
          ELSE IF ~app.dataframe.is_none /\ app.current_excel_file # "None" /\ ~proceed
          THEN app' = app
          ELSE IF folder # ""
          THEN app' = [clear_treeview(app) EXCEPT !.selected_folder = folder]
          ELSE app' = app
    /\ UNCHANGED <<timers, threads, started, last>>
    /\ UNCHANGED <<pc, variant, invoice_type, text, filename, folio, references>>
    /\ UNCHANGED batch

\* start_processing(invoice_type), with what os.path.isdir answers
start_processing ==
    /\ \E type \in InvoiceTypes, isdir \in BOOLEAN :
          IF app.selected_folder = "No folder selected" \/ ~isdir
             \/ app.processing_active
          THEN /\ app' = app
               /\ UNCHANGED <<threads, started>>
          ELSE /\ started < MaxBatches
               /\ app' = clear_treeview(disable_buttons(app))
               /\ started' = started + 1
               /\ threads' = Append(threads, Thread(started + 1))
    /\ UNCHANGED <<timers, last>>
    /\ UNCHANGED <<pc, variant, invoice_type, text, filename, folio, references>>
    /\ UNCHANGED batch

Without(ts, i) == SubSeq(ts, 1, i - 1) \o SubSeq(ts, i + 1, Len(ts))

\* run_processing up to the loop: the first status line and os.walk, which
\* raises, finds nothing or finds the files of the folder
ScanFolder ==
    /\ \E i \in 1..Len(threads) :
          /\ threads[i].pc = "scan"
          /\ timers' = after(timers, Call(0, "update_status"), threads[i].batch)
          /\ \/ threads' = [threads EXCEPT ![i].pc = "exit",
                                           ![i].todo = exit_calls("scan_error", NoFrame)]
             \/ \E files \in Folders :
                   threads' = IF files = <<>>
                              THEN [threads EXCEPT ![i].pc = "exit",
                                                   ![i].todo = exit_calls("no_pdf", NoFrame)]
                              ELSE [threads EXCEPT ![i].pc = "loop",
                                                   ![i].pdf_files = files]
    /\ UNCHANGED <<app, started, last>>
    /\ UNCHANGED <<pc, variant, invoice_type, text, filename, folio, references>>
    /\ UNCHANGED batch

\* one turn of the loop over pdf_files: the status line (in a folder of two
\* documents every turn is the first or the last) and the rows of the
\* document
ProcessPdf ==
    /\ \E i \in 1..Len(threads) :
          /\ threads[i].pc = "loop"
          /\ timers' = after(timers, Call(0, "update_status"), threads[i].batch)
          /\ threads' = [threads EXCEPT
                    ![i].all_data = @ \o FileResults(Head(threads[i].pdf_files)),
                    ![i].pdf_files = Tail(@),
                    ![i].pc = IF Tail(threads[i].pdf_files) = <<>> THEN "frame" ELSE "loop"]
    /\ UNCHANGED <<app, started, last>>
    /\ UNCHANGED <<pc, variant, invoice_type, text, filename, folio, references>>
    /\ UNCHANGED batch

\* run_processing after the loop: the frame and the Excel file, with what
\* pandas and the file system do
SaveFrame ==
    /\ \E i \in 1..Len(threads) :
          /\ threads[i].pc = "frame"
          /\ \E path \in {"df_error", "saved", "permission_error", "save_error"} :
                threads' = [threads EXCEPT
                    ![i].pc = "exit",
                    ![i].todo =
                        IF threads[i].all_data = <<>>
                        THEN exit_calls("no_data", NoFrame)
                        ELSE IF path = "df_error"
                        THEN exit_calls(path, NoFrame)
                        ELSE exit_calls(path, frame_of(threads[i].all_data))]
    /\ UNCHANGED <<app, timers, started, last>>
    /\ UNCHANGED <<pc, variant, invoice_type, text, filename, folio, references>>
    /\ UNCHANGED batch

\* the next master_gui.after of a way out; run_processing returns after the
\* last one
CallAfter ==
    /\ \E i \in 1..Len(threads) :
          /\ threads[i].pc = "exit"
          /\ timers' = after(timers, Head(threads[i].todo), threads[i].batch)
          /\ threads' = IF Len(threads[i].todo) = 1 THEN Without(threads, i)
                        ELSE [threads EXCEPT ![i].todo = Tail(@)]
    /\ UNCHANGED <<app, started, last>>
    /\ UNCHANGED <<pc, variant, invoice_type, text, filename, folio, references>>
    /\ UNCHANGED batch

\* time passes while a timer is waiting
Tick ==
    /\ \E k \in 1..Len(timers) : timers[k].ms > 0
    /\ timers' = elapse(timers)
    /\ UNCHANGED <<app, threads, started, last>>
    /\ UNCHANGED <<pc, variant, invoice_type, text, filename, folio, references>>
    /\ UNCHANGED batch

\* what a callback does to the application
callback(a, e) ==
    CASE e.func = "enable_buttons" -> enable_buttons(a)
      [] e.func = "set_data_and_file" -> set_data_and_file(a, e.df, e.file)
      [] e.func = "load_data_to_treeview" -> load_data_to_treeview(a)
      [] OTHER -> a

\* mainloop serves the timer that expired first
TimerFires ==
    /\ timers # <<>>
    /\ Head(timers).ms = 0
    /\ app' = callback(app, Head(timers))
    /\ timers' = Tail(timers)
    /\ UNCHANGED <<threads, started, last>>
    /\ UNCHANGED <<pc, variant, invoice_type, text, filename, folio, references>>
    /\ UNCHANGED batch

\* the pipelines are not running
NoRun ==
    /\ pc = "gui"
    /\ variant = "?"
    /\ invoice_type = "?"
    /\ text = TextNone
    /\ filename = <<>>
    /\ folio = None
    /\ references = <<>>
    /\ pdf_files = <<>>
    /\ handled = 0
    /\ all_data = <<>>
    /\ count = ZeroCount
    /\ findings = {}
    /\ llm = NoLlm("not_invoked")
    /\ posts = <<>>
    /\ df = <<>>

InitGui == NoRun /\ NoDesk

NextGui ==
    \/ select_folder
    \/ start_processing
    \/ ScanFolder
    \/ ProcessPdf
    \/ SaveFrame
    \/ CallAfter
    \/ Tick
    \/ TimerFires

SpecGui == InitGui /\ [][NextGui]_vars

\* ------------------------------------------------------------------------
\* The desktop application: the handlers of the result table
\* ------------------------------------------------------------------------
\* the handler the GUI thread ran, and whether it came to call
\* load_data_to_treeview
Did(handler, reloaded) == [handler |-> handler, reloaded |-> reloaded]
NoReload == Did("", FALSE)

\* the cell of a row under an editable column, and the row with another
\* cell there
cell(r, col) == r.Number
with_cell(r, col, v) == [r EXCEPT !.Number = v]

\* what the user types into the Entry
Typed == { <<8>> }

\* the row _add_row makes: "[MANUALLY ADDED]" with empty cells
new_row_data == Row(0, "", <<>>, <<>>)

\* pd.concat([self.dataframe, more], ignore_index=True)
concat(frame, more) ==
    DataFrame(RangeIndex([k \in 1..Len(frame.rows) |-> frame.rows[k].data] \o more))

\* dataframe.drop(index=indices_to_drop)
drop(rows, indices_to_drop) ==
    SelectSeq(rows, LAMBDA lr : lr.index \notin indices_to_drop)

\* the indices the selected items map to, those that are in the frame
mapped(a, selected_item_ids) ==
    { i \in index(a.dataframe) :
        \E item_id \in selected_item_ids : i \in Get(a._df_index_map, item_id) }

\* sort_treeview_column(col): a click on a heading
sort_treeview_column ==
    /\ \E col \in Columns :
          IF app.dataframe.is_none \/ empty(app.dataframe)
          THEN /\ app' = app
               /\ last' = NoReload
          ELSE /\ app' = sorted_by(app, col)
               /\ last' = Did("sort_treeview_column", TRUE)
    /\ UNCHANGED <<timers, threads, started>>
    /\ UNCHANGED <<pc, variant, invoice_type, text, filename, folio, references>>
    /\ UNCHANGED batch

\* on_tree_double_click: a double click on the cell of item k under col (k = 0:
\* a double click that is on no cell)
on_tree_double_click ==
    /\ \E k \in 0..Len(app.tree), col \in Columns :
          app' = IF app._edit_entry \/ k = 0 \/ col \notin editable_columns
                 THEN app
                 ELSE [app EXCEPT !._edit_entry = TRUE,
                                  !._edit_item_id = app.tree[k].iid,
                                  !._edit_column_id = col]
    /\ last' = NoReload
    /\ UNCHANGED <<timers, threads, started>>
    /\ UNCHANGED <<pc, variant, invoice_type, text, filename, folio, references>>
    /\ UNCHANGED batch

\* _save_cell_edit(item_id, column_index, column_name) after its guard, for
\* the Entry that was opened on that item and column
saved_cell(a, new_value) ==
    LET item_id == a._edit_item_id
        column_name == a._edit_column_id
        a1 == _cancel_cell_edit(a)
        at == { k \in 1..Len(a1.tree) : a1.tree[k].iid = item_id }
    IN  IF at = {} THEN a1
        ELSE LET k == CHOOSE k \in at : TRUE
             IN  IF cell(a1.tree[k].values, column_name) = new_value THEN a1
                 ELSE LET a2 == [a1 EXCEPT !.tree[k].values =
                                              with_cell(@, column_name, new_value)]
                          df_index == Get(a2._df_index_map, item_id)
                      IN  IF a2.dataframe.is_none
                             \/ df_index \cap index(a2.dataframe) = {}
                          THEN a2
                          ELSE [a2 EXCEPT !.dataframe.rows =
                                   [j \in 1..Len(@) |->
                                       IF @[j].index \in df_index
                                       THEN [@[j] EXCEPT !.data =
                                                with_cell(@, column_name, new_value)]
                                       ELSE @[j]]]

\* _save_cell_edit: Return, or the focus leaving the Entry
_save_cell_edit ==
    /\ \E new_value \in Typed :
          app' = IF ~app._edit_entry THEN app ELSE saved_cell(app, new_value)
    /\ last' = NoReload
    /\ UNCHANGED <<timers, threads, started>>
    /\ UNCHANGED <<pc, variant, invoice_type, text, filename, folio, references>>
    /\ UNCHANGED batch

\* _add_row
_add_row ==
    /\ IF app.dataframe.is_none
       THEN /\ app' = app
            /\ last' = NoReload
       ELSE /\ Len(app.dataframe.rows) < MaxRows
            /\ app' = load_data_to_treeview(
                          [_cancel_cell_edit(app) EXCEPT
                              !.dataframe = concat(@, <<new_row_data>>)])
            /\ last' = Did("_add_row", TRUE)
    /\ UNCHANGED <<timers, threads, started>>
    /\ UNCHANGED <<pc, variant, invoice_type, text, filename, folio, references>>
    /\ UNCHANGED batch

\* _delete_selected_rows, with the selection of the tree and the answer to
\* askyesno
_delete_selected_rows ==
    /\ \E selected_item_ids \in SUBSET get_children(app), yes \in BOOLEAN :
          IF selected_item_ids = {} \/ ~yes
          THEN /\ app' = app
               /\ last' = NoReload
          ELSE LET a1 == _cancel_cell_edit(app)
                   indices_to_drop == mapped(a1, selected_item_ids)
               IN  IF indices_to_drop = {}
                   THEN /\ app' = a1
                        /\ last' = NoReload
                   ELSE /\ app' = load_data_to_treeview(
                                      [a1 EXCEPT !.dataframe.rows =
                                          reset_index(drop(@, indices_to_drop))])
                        /\ last' = Did("_delete_selected_rows", TRUE)
    /\ UNCHANGED <<timers, threads, started>>
    /\ UNCHANGED <<pc, variant, invoice_type, text, filename, folio, references>>
    /\ UNCHANGED batch

\* _copy_selected_rows: the records of the selected rows (the tree shows the
\* rows in the order of the frame)
_copy_selected_rows ==
    /\ \E selected_item_ids \in SUBSET get_children(app) :
          app' = IF selected_item_ids = {} \/ app.dataframe.is_none THEN app
                 ELSE LET df_indices_to_copy == mapped(app, selected_item_ids)
                          copied_data_df ==
                              SelectSeq(app.dataframe.rows,
                                        LAMBDA lr : lr.index \in df_indices_to_copy)
                      IN  [app EXCEPT !._clipboard =
                              [k \in 1..Len(copied_data_df) |-> copied_data_df[k].data]]
    /\ last' = NoReload
    /\ UNCHANGED <<timers, threads, started>>
    /\ UNCHANGED <<pc, variant, invoice_type, text, filename, folio, references>>
    /\ UNCHANGED batch

\* the Escape key in the Entry: _cancel_cell_edit
Escape ==
    /\ app._edit_entry
    /\ app' = _cancel_cell_edit(app)
    /\ last' = NoReload
    /\ UNCHANGED <<timers, threads, started>>
    /\ UNCHANGED <<pc, variant, invoice_type, text, filename, folio, references>>
    /\ UNCHANGED batch

\* _paste_rows
_paste_rows ==
    /\ IF app._clipboard = <<>> \/ app.dataframe.is_none
       THEN /\ app' = app
            /\ last' = NoReload
       ELSE /\ Len(app.dataframe.rows) + Len(app._clipboard) <= MaxRows
            /\ app' = load_data_to_treeview(
                          [_cancel_cell_edit(app) EXCEPT
                              !.dataframe = concat(@, app._clipboard)])
            /\ last' = Did("_paste_rows", TRUE)
    /\ UNCHANGED <<timers, threads, started>>
    /\ UNCHANGED <<pc, variant, invoice_type, text, filename, folio, references>>
    /\ UNCHANGED batch

\* the rows a batch over the files of a folder leaves in all_data
RECURSIVE data_of(_)
data_of(files) ==
    IF files = <<>> THEN <<>> ELSE FileResults(Head(files)) \o data_of(Tail(files))

\* the application as a batch that saved its frame leaves it: started on a
\* selected folder, then set_data_and_file, load_data_to_treeview and
\* enable_buttons
Delivered(frame, file) ==
    enable_buttons(
        load_data_to_treeview(
            set_data_and_file(
                clear_treeview(disable_buttons(
                    [InvoiceProcessorApp EXCEPT !.selected_folder = "folder"])),
                frame, file)))

InitTable ==
    /\ NoRun
    /\ \E files \in Folders \ {<<>>} :
          app = Delivered(frame_of(data_of(files)), "Extracted_Invoices.xlsx")
    /\ timers = <<>>
    /\ threads = <<>>
    /\ started = 1
    /\ last = NoHandler

NextTable ==
    \/ sort_treeview_column
    \/ on_tree_double_click
    \/ _save_cell_edit
    \/ Escape
    \/ _add_row
    \/ _delete_selected_rows
    \/ _copy_selected_rows
    \/ _paste_rows

SpecTable == InitTable /\ [][NextTable]_vars

\* the batch with its scheduling.  A thread that runs run_processing is
\* scheduled by the operating system and waits for nothing (its only calls
\* into the GUI are master_gui.after), so that its next statement is
\* executed; the clock advances; mainloop() serves a timer that has expired.
\* What the user does is left without any such condition.
SpecGuiLive ==
    /\ InitGui
    /\ [][NextGui]_vars
    /\ WF_vars(ScanFolder)
    /\ WF_vars(ProcessPdf)
    /\ WF_vars(SaveFrame)
    /\ WF_vars(CallAfter)
    /\ WF_vars(Tick)
    /\ WF_vars(TimerFires)

\* ------------------------------------------------------------------------
\* Properties of the batch in the desktop application (SpecGui)
\* ------------------------------------------------------------------------
\* C27: at most one thread runs run_processing at any time.
C27_OneBatchThread == Len(threads) <= 1

\* the calls of a batch that are still to be made or still to be served
WaitingCalls(b) ==
    { timers[k].func : k \in { j \in 1..Len(timers) : timers[j].batch = b } }
    \cup UNION { { threads[i].todo[k].func : k \in 1..Len(threads[i].todo) } :
                 i \in { j \in 1..Len(threads) : threads[j].batch = b } }

\* a thread that has not yet called after(..., enable_buttons)
AtWork(t) ==
    t.pc # "exit" \/ \E k \in 1..Len(t.todo) : t.todo[k].func = "enable_buttons"

\* C27, the part the flag ensures: at most one thread is in run_processing
\* before the statement that schedules enable_buttons.
C27_OneBatchAtWork ==
    Cardinality({ i \in 1..Len(threads) : AtWork(threads[i]) }) <= 1

\* C27, the handlers: start_processing and select_folder invoked while
\* processing_active is true start no thread and change no data.
C27_GuardedHandlers ==
    [][ (app.processing_active /\ (start_processing \/ select_folder))
            => UNCHANGED <<app, threads, timers, started>> ]_vars

\* C27, the flag: processing_active becomes false only when mainloop serves
\* an enable_buttons that the batch started last has scheduled.
C27_OnlyEnableButtons ==
    [][ (app.processing_active /\ ~app'.processing_active)
            => /\ timers # <<>>
               /\ Head(timers).func = "enable_buttons"
               /\ Head(timers).batch = started
               /\ timers' = Tail(timers) ]_vars

\* how many times a way out schedules enable_buttons
Enables(path) ==
    Cardinality({ k \in 1..Len(exit_calls(path, NoFrame)) :
                    exit_calls(path, NoFrame)[k].func = "enable_buttons" })

\* enable_buttons is scheduled exactly once on every way out, and while a
\* set_data_and_file or a load_data_to_treeview of a batch is still to run
\* the enable_buttons of that batch has not run: the GUI is still disabled
EnabledOnceAndLast ==
    /\ \A path \in ExitPaths : Enables(path) = 1
    /\ \A b \in 1..started :
          WaitingCalls(b) \cap {"set_data_and_file", "load_data_to_treeview"} # {}
              => /\ app.processing_active
                 /\ "enable_buttons" \in WaitingCalls(b)

\* C28: every started batch eventually re-enables the GUI; enable_buttons is
\* scheduled exactly once on each way out of run_processing, and where data
\* is delivered it runs after set_data_and_file and load_data_to_treeview of
\* the same batch.
C28_ReEnabled ==
    /\ []EnabledOnceAndLast
    /\ (app.processing_active ~> ~app.processing_active)

\* a batch has delivered its frame and the GUI is enabled again
C28_Witness ==
    /\ started >= 1
    /\ threads = <<>>
    /\ timers = <<>>
    /\ ~app.processing_active
    /\ ~app.dataframe.is_none
    /\ Len(app.tree) = Len(app.dataframe.rows)
    /\ app.tree # <<>>

\* ------------------------------------------------------------------------
\* Properties of the result table (SpecTable)
\* ------------------------------------------------------------------------
\* C30: after any sequence of load, sort, add-row, paste-rows and delete-rows
\* operations the tree items and the rows of the DataFrame are in one-to-one
\* correspondence: every item id is a key of _df_index_map, mapped to an
\* index of the DataFrame, no two items are mapped to the same row, every row
\* has its item, and no Entry is open after an operation that reloaded the
\* tree.
C30_TreeMatchesFrame ==
    /\ Len(app.tree) = Cardinality(get_children(app))
    /\ Keys(app._df_index_map) = get_children(app)
    /\ \A id \in get_children(app) :
          /\ Cardinality(Get(app._df_index_map, id)) = 1
          /\ Get(app._df_index_map, id) \subseteq index(app.dataframe)
    /\ \A id1, id2 \in get_children(app) :
          Get(app._df_index_map, id1) = Get(app._df_index_map, id2) => id1 = id2
    /\ Len(app.tree) = Len(app.dataframe.rows)
    /\ last.reloaded => ~app._edit_entry

\* rows were deleted from a table that had been sorted
C30_Witness ==
    /\ last = Did("_delete_selected_rows", TRUE)
    /\ app._tree_current_sort_col # "None"
    /\ app.tree # <<>>
    /\ Len(app.tree) < MaxRows

====
